---- MODULE Spec2Model ----
(***************************************************************************)
(* A model of the gadb ADB client library (package gadb).                  *)
(*                                                                         *)
(* The module holds several specifications over one set of variables:     *)
(*   Spec / FairSpec  the device-scoped operations of device.go: the      *)
(*                    life cycle of the dialed socket, and Logcat with    *)
(*                    its background copy goroutine;                      *)
(*   SpecPush         Device.Push after the sync: upgrade, frame by frame;*)
(*   SpecSend         transport.Send and the _send loop, byte by byte;    *)
(*   SpecVerify       transport.VerifyResponse on a server byte stream;   *)
(*   SpecClientList   the parsing loop of Client.List.                    *)
(*   SpecOtherTag     Device.List on a reply with an unknown SYNC tag;     *)
(*   SpecReadN        _readN, one socket read at a time;                  *)
(*   SpecDeadline     the read deadline and the reads of an operation;    *)
(*   FairSpecSend     the _send loop with a scheduled sender;             *)
(*   SpecDraft        the draft of executeCommandStreaming (error.go);    *)
(*   SpecForwardList  the parsing loop of Client.ForwardList.             *)
(* Each specification leaves the variables of the other components at     *)
(* their idle values.                                                     *)
(***************************************************************************)
EXTENDS Integers, Sequences, FiniteSets, TLC

VARIABLES
    \* ---- device-scoped operation (device.go) ----
    op,             \* the public operation running, "none" before the call
    pc,             \* position of the caller's goroutine in that operation
    service,        \* the service command the operation sends after attach
    dialed,         \* net.Dial succeeded: a socket exists
    attached,       \* createDeviceTransport returned the transport (OKAY seen)
    closes,         \* the Close() calls made on that socket, in order, by closer
    defers,         \* the stack of deferred closers of the running operation
    resp,           \* executeCommandStreaming's named result: "nil" or "sock"
    ret,            \* the operation's result: "none", "ok" or an error kind
    wire,           \* what the operation has sent on the socket, in order
    entries,        \* Device.List: directory entries appended so far
    \* ---- Logcat's background copy (device.go 413-420) ----
    gpc,            \* position of the goroutine: none, start, read, write, done
    ctxDone,        \* cancel() has been called
    exitFired,      \* the stop signal: a value is offered on exitChan
    inbuf,          \* log chunks delivered by the server and not yet read
    srvSent,        \* log chunks the server has sent in all
    srvClosed,      \* the server has closed its end (EOF after inbuf)
    deadlinePassed, \* the read deadline armed by the last ReadBytesN has passed
    dst,            \* chunks written to the destination writer
    \* ---- the other components, one record each ----
    push,           \* Device.Push after the sync: upgrade (SpecPush)
    snd,            \* transport.Send and its _send loop (SpecSend)
    vr,             \* the reader of a server reply: transport.VerifyResponse
                    \* (SpecVerify), the loop of Device.List (SpecDeviceList),
                    \* Device.Pull after RECV is sent (SpecPull)
    cl,             \* Client.List (SpecClientList), Client.SerialList
                    \* (SpecSerialList), a Device that List produced and its
                    \* callers (SpecDeviceAttrs)
    sh,             \* Device.RunShellCommand, from the call to the string it
                    \* returns (SpecShell)
    cn              \* a Client and the sockets of its operations (SpecClient)

deviceVars == <<op, pc, service, dialed, attached, closes, defers, resp, ret, wire, entries,
                gpc, ctxDone, exitFired, inbuf, srvSent, srvClosed, deadlinePassed, dst>>
vars == <<deviceVars, push, snd, vr, cl, sh, cn>>

(***************************************************************************)
(* Bounds of the model.                                                    *)
(***************************************************************************)
MaxEntries == 2     \* DENT frames a LIST reply carries at most
MaxLogChunks == 2   \* chunks of log output the server sends at most
MaxCmdLen == 17     \* every command length up to this one is sent
MaxShortWrites == 2 \* Write calls of one _send that accept less than offered
MaxShortLen == 2    \* bytes such a short Write accepts at most
MaxMsgLen == 3      \* bytes the server sends after a length prefix at most
MaxLines == 3       \* lines of a host:devices-l payload at most
MaxSrcLen == 3      \* every push source length up to this one is tried
MaxReads == 3       \* reads of a push source that return without error at most
MaxAux == 2         \* auxiliary number of the status reply to a push at most
MaxDents == 2       \* DENT frames before the DONE of a LIST reply at most
MaxFrames == 3      \* frames of the reply to RECV at most
MaxOutput == 2      \* chunks of output of a shell command at most
MaxCalls == 3       \* operations called on one Client at most

(***************************************************************************)
(* Program constants.                                                      *)
(***************************************************************************)
AdbDaemonPort == 5555
syncMaxChunkSize == 65536
defaultFileMode == 436      \* os.FileMode(0o664)

\* ------------------------------------------------------------------------
\* Idle values of the components a specification does not run.
\* ------------------------------------------------------------------------
IdleDevice ==
    /\ op = "none" /\ pc = "off" /\ service = "" /\ dialed = FALSE
    /\ attached = FALSE
    /\ closes = <<>> /\ defers = <<>> /\ resp = "nil" /\ ret = "none"
    /\ wire = <<>> /\ entries = 0
    /\ gpc = "none" /\ ctxDone = FALSE /\ exitFired = FALSE /\ inbuf = 0
    /\ srvSent = 0 /\ srvClosed = FALSE /\ deadlinePassed = FALSE /\ dst = 0

IdlePush   == push = [pc |-> "off"]
IdleSend   == snd = [pc |-> "off"]
IdleVerify == vr = [pc |-> "off"]
IdleList   == cl = [pc |-> "off"]
IdleShell  == sh = [pc |-> "off"]
IdleConn   == cn = [pc |-> "off"]

\* ------------------------------------------------------------------------
\* Helpers.
\* ------------------------------------------------------------------------
Min(a, b) == IF a <= b THEN a ELSE b

\* ========================================================================
\* Device-scoped operations (device.go)
\* ========================================================================
StreamOps == {"RunShellCommand", "LogcatClear", "EnableAdbOverTCP"}
SyncOps   == {"List", "Push", "Pull"}
DeviceOps == StreamOps \cup SyncOps \cup {"Logcat"}

\* Inputs of RunShellCommand and EnableAdbOverTCP.
Cmds     == {"", " ", "ls"}
ArgLists == {<<>>, <<"-l">>, <<"-l", "/sdcard">>}
Ports    == {<<>>, <<5556>>}
Serial   == "abcdef"

Others == UNCHANGED <<push, snd, vr, cl, sh, cn>>
logVars == <<gpc, ctxDone, exitFired, inbuf, srvSent, srvClosed, deadlinePassed, dst>>

\* strings.Join(args, " ")
RECURSIVE Join(_)
Join(args) ==
    IF args = <<>> THEN ""
    ELSE IF Len(args) = 1 THEN args[1]
    ELSE args[1] \o " " \o Join(Tail(args))

RECURSIVE Spaces(_)
Spaces(n) == IF n = 0 THEN "" ELSE " " \o Spaces(n - 1)

\* strings.TrimSpace(cmd) == "" (the inputs hold no white space but spaces)
IsBlank(s) == s = Spaces(Len(s))

\* fmt.Sprintf("%s %s", cmd, strings.Join(args, " "))
ShellLine(cmd, args) == cmd \o " " \o Join(args)

\* The sync request each file operation sends after the upgrade.
SyncRequest(o) ==
    CASE o = "List" -> "LIST"
      [] o = "Push" -> "SEND"
      [] o = "Pull" -> "RECV"

\* The closers a return runs: the deferred calls, last deferred first.
\* "tpIfNil" is executeCommandStreaming's deferred func, which closes the
\* transport only when the named result resp is nil.
RECURSIVE RunDefers(_, _)
RunDefers(df, respv) ==
    IF df = <<>> THEN <<>>
    ELSE LET last == df[Len(df)]
             rest == SubSeq(df, 1, Len(df) - 1)
             this == IF last = "tpIfNil"
                     THEN (IF respv = "nil" THEN <<"tp">> ELSE <<>>)
                     ELSE <<last>>
         IN  this \o RunDefers(rest, respv)

\* A return of the operation with result r: the deferred closers run.
ReturnWith(r) ==
    /\ ret' = r
    /\ pc' = "returned"
    /\ closes' = closes \o RunDefers(defers, resp)
    /\ defers' = <<>>

\* The public call.  RunShellCommandStreaming joins the command line and
\* fails on a blank one before anything is dialed.
Call(o) ==
    /\ pc = "idle"
    /\ op' = o
    /\ \/ /\ o = "RunShellCommand"
          /\ \E cmd \in Cmds, args \in ArgLists :
                LET line == ShellLine(cmd, args) IN
                IF IsBlank(line)
                THEN /\ ret' = "empty-command" /\ pc' = "returned"
                     /\ service' = ""
                ELSE /\ ret' = ret /\ pc' = "dial"
                     /\ service' = "shell:" \o line
       \/ /\ o = "LogcatClear"
          /\ service' = "shell:logcat -c" /\ pc' = "dial" /\ ret' = ret
       \/ /\ o = "EnableAdbOverTCP"
          /\ \E port \in Ports :
                service' = "tcpip:" \o
                    ToString(IF port = <<>> THEN AdbDaemonPort ELSE port[1])
          /\ pc' = "dial" /\ ret' = ret
       \/ /\ o = "Logcat"
          /\ service' = "shell:logcat" /\ pc' = "dial" /\ ret' = ret
       \/ /\ o \in SyncOps
          /\ service' = "sync:" /\ pc' = "dial" /\ ret' = ret
    /\ UNCHANGED <<dialed, attached, closes, defers, resp, wire, entries, logVars>>
    /\ Others

\* newTransport: net.Dial
NewTransport ==
    /\ pc = "dial"
    /\ \/ /\ dialed' = TRUE /\ pc' = "sendTransport" /\ ret' = ret
       \/ /\ dialed' = FALSE /\ pc' = "returned" /\ ret' = "io-error"
    /\ UNCHANGED <<op, service, attached, closes, defers, resp, wire, entries, logVars>>
    /\ Others

\* createDeviceTransport: tp.Send("host:transport:<serial>").  On failure it
\* returns transport{} and the dialed tp is dropped without Close.
SendHostTransport ==
    /\ pc = "sendTransport"
    /\ \/ /\ wire' = Append(wire, "host:transport:" \o Serial) /\ pc' = "verifyTransport"
          /\ ret' = ret
       \/ /\ wire' = wire /\ pc' = "returned" /\ ret' = "io-error"
    /\ UNCHANGED <<op, service, dialed, attached, closes, defers, resp, entries, logVars>>
    /\ Others

\* createDeviceTransport: tp.VerifyResponse(), then the caller's defer.
VerifyHostTransport ==
    /\ pc = "verifyTransport"
    /\ \/ /\ pc' = "sendService" /\ ret' = ret /\ attached' = TRUE
          /\ defers' = IF op \in StreamOps THEN <<"tpIfNil">> ELSE <<"tp">>
       \/ /\ pc' = "returned" /\ defers' = defers /\ attached' = attached
          /\ \E e \in {"io-error", "command-failed"} : ret' = e
    /\ UNCHANGED <<op, service, dialed, closes, resp, wire, entries, logVars>>
    /\ Others

\* Mutant of SendService: the service command is sent once more after the
\* first send.
SendService_Twice ==
    /\ pc = "sendService"
    /\ wire' = wire \o <<service, service>> /\ pc' = "verifyService"
    /\ UNCHANGED <<ret, closes, defers>>
    /\ UNCHANGED <<op, service, dialed, attached, resp, entries, logVars>>
    /\ Others

\* tp.Send(command): the service command (sync: in CreateSyncTransport).
SendService ==
    /\ pc = "sendService"
    /\ \/ /\ wire' = Append(wire, service) /\ pc' = "verifyService"
          /\ UNCHANGED <<ret, closes, defers>>
       \/ /\ wire' = wire /\ ReturnWith("io-error")
    /\ UNCHANGED <<op, service, dialed, attached, resp, entries, logVars>>
    /\ Others

\* tp.VerifyResponse() of the service command, and what follows the OKAY:
\* executeCommandStreaming hands tp.sock out as resp (its deferred func then
\* closes nothing) and the consumer defers r.Close(); CreateSyncTransport
\* returns the syncTransport and the caller defers sync.Close(); Logcat
\* starts its goroutine.
VerifyService ==
    /\ pc = "verifyService"
    /\ \/ /\ op \in {"RunShellCommand", "LogcatClear"}
          /\ resp' = "sock" /\ defers' = <<"r">> /\ pc' = "readAll"
          /\ UNCHANGED <<ret, closes, logVars>>
       \/ /\ op = "EnableAdbOverTCP"
          /\ resp' = "sock" /\ defers' = <<"r">> /\ pc' = "enableReturn"
          /\ UNCHANGED <<ret, closes, logVars>>
       \/ /\ op \in SyncOps
          /\ defers' = Append(defers, "sync") /\ pc' = "syncSend"
          /\ UNCHANGED <<ret, closes, resp, logVars>>
       \/ /\ op = "Logcat"
          /\ gpc' = "start" /\ pc' = "waitExit"
          /\ UNCHANGED <<ret, closes, resp, defers, ctxDone, exitFired, inbuf,
                         srvSent, srvClosed, deadlinePassed, dst>>
       \/ /\ \E e \in {"io-error", "command-failed"} : ReturnWith(e)
          /\ UNCHANGED <<resp, logVars>>
    /\ UNCHANGED <<op, service, dialed, attached, wire, entries>>
    /\ Others

\* executeCommand: io.ReadAll(r), then the deferred r.Close().
ReadAll ==
    /\ pc = "readAll"
    /\ \E r \in {"ok", "io-error"} : ReturnWith(r)
    /\ UNCHANGED <<op, service, dialed, attached, resp, wire, entries, logVars>>
    /\ Others

\* EnableAdbOverTCP: return nil, with the deferred r.Close().
EnableReturn ==
    /\ pc = "enableReturn"
    /\ ReturnWith("ok")
    /\ UNCHANGED <<op, service, dialed, attached, resp, wire, entries, logVars>>
    /\ Others

\* sync.Send("LIST" | "SEND" | "RECV", ...)
SyncSend ==
    /\ pc = "syncSend"
    /\ \/ /\ wire' = Append(wire, SyncRequest(op))
          /\ pc' = CASE op = "List" -> "readEntry"
                     [] op = "Push" -> "sendStream"
                     [] op = "Pull" -> "writeStream"
          /\ UNCHANGED <<ret, closes, defers>>
       \/ /\ wire' = wire /\ ReturnWith("io-error")
    /\ UNCHANGED <<op, service, dialed, attached, resp, entries, logVars>>
    /\ Others

\* Device.List: one turn of the loop around sync.ReadDirectoryEntry().
ReadEntry ==
    /\ pc = "readEntry"
    /\ \/ /\ entries < MaxEntries
          /\ entries' = entries + 1
          /\ UNCHANGED <<pc, ret, closes, defers>>
       \/ /\ ReturnWith("ok") /\ entries' = entries
       \/ /\ ReturnWith("io-error") /\ entries' = entries
    /\ UNCHANGED <<op, service, dialed, attached, resp, wire, logVars>>
    /\ Others

\* Device.Push: sync.SendStream(source)
SendStream ==
    /\ pc = "sendStream"
    /\ \/ /\ wire' = Append(wire, "DATA*") /\ pc' = "sendStatus"
          /\ UNCHANGED <<ret, closes, defers>>
       \/ /\ wire' = wire /\ ReturnWith("io-error")
    /\ UNCHANGED <<op, service, dialed, attached, resp, entries, logVars>>
    /\ Others

\* Device.Push: sync.SendStatus("DONE", mtime)
SendStatus ==
    /\ pc = "sendStatus"
    /\ \/ /\ wire' = Append(wire, "DONE") /\ pc' = "verifyStatus"
          /\ UNCHANGED <<ret, closes, defers>>
       \/ /\ wire' = wire /\ ReturnWith("io-error")
    /\ UNCHANGED <<op, service, dialed, attached, resp, entries, logVars>>
    /\ Others

\* Device.Push: sync.VerifyStatus()
VerifyStatus ==
    /\ pc = "verifyStatus"
    /\ \E r \in {"ok", "io-error", "sync-fail"} : ReturnWith(r)
    /\ UNCHANGED <<op, service, dialed, attached, resp, wire, entries, logVars>>
    /\ Others

\* Device.Pull: sync.WriteStream(dest)
WriteStream ==
    /\ pc = "writeStream"
    /\ \E r \in {"ok", "io-error", "sync-fail"} : ReturnWith(r)
    /\ UNCHANGED <<op, service, dialed, attached, resp, wire, entries, logVars>>
    /\ Others

\* ------------------------------------------------------------------------
\* Device.Logcat (device.go 399-421): the caller's goroutine after the
\* service OKAY, its background copy, and their environment.
\* ------------------------------------------------------------------------
callerLog == <<op, pc, service, dialed, attached, closes, defers, resp, ret, wire, entries>>

\* The stop signal: a value is offered on exitChan.
FireStop ==
    /\ op = "Logcat" /\ pc \notin {"idle", "returned"}
    /\ ~exitFired
    /\ exitFired' = TRUE
    /\ UNCHANGED <<callerLog, gpc, ctxDone, inbuf, srvSent, srvClosed,
                   deadlinePassed, dst>>
    /\ Others

\* Mutant of LogcatReceive: the caller also goes on when the background
\* copy has ended.
LogcatReceive_OnCopyEnd ==
    /\ op = "Logcat" /\ pc = "waitExit"
    /\ exitFired \/ gpc = "done"
    /\ pc' = "cancel"
    /\ UNCHANGED <<op, service, dialed, attached, closes, defers, resp, ret, wire, entries,
                   logVars>>
    /\ Others

\* <-exitChan
LogcatReceive ==
    /\ op = "Logcat" /\ pc = "waitExit"
    /\ exitFired
    /\ pc' = "cancel"
    /\ UNCHANGED <<op, service, dialed, attached, closes, defers, resp, ret, wire, entries,
                   logVars>>
    /\ Others

\* cancel()
LogcatCancel ==
    /\ op = "Logcat" /\ pc = "cancel"
    /\ ctxDone' = TRUE
    /\ pc' = "logcatReturn"
    /\ UNCHANGED <<op, service, dialed, attached, closes, defers, resp, ret, wire, entries,
                   gpc, exitFired, inbuf, srvSent, srvClosed, deadlinePassed, dst>>
    /\ Others

\* Mutant of LogcatReturn: the return without the deferred tp.Close().
LogcatReturn_NoClose ==
    /\ op = "Logcat" /\ pc = "logcatReturn"
    /\ ret' = "ok" /\ pc' = "returned"
    /\ UNCHANGED <<op, service, dialed, attached, closes, defers, resp, wire,
                   entries, logVars>>
    /\ Others

\* return err (nil here), with the deferred tp.Close().  Nothing waits for
\* the goroutine.
LogcatReturn ==
    /\ op = "Logcat" /\ pc = "logcatReturn"
    /\ ReturnWith("ok")
    /\ UNCHANGED <<op, service, dialed, attached, resp, wire, entries, logVars>>
    /\ Others

\* go func(): r := NewReader(ctx, tp.sock)
CopyStart ==
    /\ gpc = "start"
    /\ gpc' = "read"
    /\ UNCHANGED <<callerLog, ctxDone, exitFired, inbuf, srvSent, srvClosed,
                   deadlinePassed, dst>>
    /\ Others

\* What one Read of the context reader returns: the cancellation is seen at
\* the read boundary; otherwise the socket is read, which fails once it is
\* closed or its deadline has passed, delivers a chunk when one is there,
\* reports EOF when the server has closed, and blocks otherwise.
CtxRead(cancelled, closed, late, avail, eof) ==
    IF cancelled \/ closed \/ late THEN "error"
    ELSE IF avail > 0 THEN "data"
    ELSE IF eof THEN "eof"
    ELSE "blocked"

\* io.Copy(dst, r): r.Read
CopyRead ==
    /\ gpc = "read"
    /\ LET got == CtxRead(ctxDone, closes # <<>>, deadlinePassed, inbuf, srvClosed)
       IN  /\ got # "blocked"
           /\ gpc' = IF got = "data" THEN "write" ELSE "done"
           /\ inbuf' = IF got = "data" THEN inbuf - 1 ELSE inbuf
    /\ UNCHANGED <<callerLog, ctxDone, exitFired, srvSent, srvClosed,
                   deadlinePassed, dst>>
    /\ Others

\* io.Copy(dst, r): dst.Write of what was read; a failed write ends the copy.
CopyWrite ==
    /\ gpc = "write"
    /\ \/ /\ dst' = dst + 1 /\ gpc' = "read"
       \/ /\ dst' = dst /\ gpc' = "done"
    /\ UNCHANGED <<callerLog, ctxDone, exitFired, inbuf, srvSent, srvClosed,
                   deadlinePassed>>
    /\ Others

\* The server writes log output while the socket is open.
ServerSend ==
    /\ gpc \in {"start", "read", "write"}
    /\ closes = <<>> /\ ~srvClosed
    /\ srvSent < MaxLogChunks
    /\ srvSent' = srvSent + 1
    /\ inbuf' = inbuf + 1
    /\ UNCHANGED <<callerLog, gpc, ctxDone, exitFired, srvClosed, deadlinePassed, dst>>
    /\ Others

\* The server closes its end.
ServerClose ==
    /\ gpc \in {"start", "read", "write"}
    /\ ~srvClosed
    /\ srvClosed' = TRUE
    /\ UNCHANGED <<callerLog, gpc, ctxDone, exitFired, inbuf, srvSent, deadlinePassed, dst>>
    /\ Others

\* The read deadline armed by VerifyResponse's ReadBytesN passes; nothing
\* refreshes it for the copy's reads.
DeadlineExpire ==
    /\ gpc \in {"start", "read", "write"}
    /\ ~deadlinePassed
    /\ deadlinePassed' = TRUE
    /\ UNCHANGED <<callerLog, gpc, ctxDone, exitFired, inbuf, srvSent, srvClosed, dst>>
    /\ Others

\* ------------------------------------------------------------------------
\* The specification of the device-scoped operations.
\* ------------------------------------------------------------------------
InitDevice ==
    /\ op = "none" /\ pc = "idle" /\ service = "" /\ dialed = FALSE
    /\ attached = FALSE
    /\ closes = <<>> /\ defers = <<>> /\ resp = "nil" /\ ret = "none"
    /\ wire = <<>> /\ entries = 0
    /\ gpc = "none" /\ ctxDone = FALSE /\ exitFired = FALSE /\ inbuf = 0
    /\ srvSent = 0 /\ srvClosed = FALSE /\ deadlinePassed = FALSE /\ dst = 0

Init == InitDevice /\ IdlePush /\ IdleSend /\ IdleVerify /\ IdleList /\ IdleShell /\ IdleConn

CallerStep == LogcatReceive \/ LogcatCancel \/ LogcatReturn
CopyStep == CopyStart \/ CopyRead \/ CopyWrite

Next ==
    \/ \E o \in DeviceOps : Call(o)
    \/ NewTransport
    \/ SendHostTransport
    \/ VerifyHostTransport
    \/ SendService
    \/ VerifyService
    \/ ReadAll
    \/ EnableReturn
    \/ SyncSend
    \/ ReadEntry
    \/ SendStream
    \/ SendStatus
    \/ VerifyStatus
    \/ WriteStream
    \/ FireStop
    \/ LogcatReceive
    \/ LogcatCancel
    \/ LogcatReturn
    \/ CopyStart
    \/ CopyRead
    \/ CopyWrite
    \/ ServerSend
    \/ ServerClose
    \/ DeadlineExpire

Spec == Init /\ [][Next]_vars

\* The Go scheduler runs every runnable goroutine: the caller's steps and the
\* copy's steps are each taken when they stay enabled.  Nothing is assumed
\* of the server, the deadline or the stop signal.
FairSpec == Spec /\ WF_vars(CallerStep) /\ WF_vars(CopyStep)

\* ========================================================================
\* Claims about the device-scoped operations
\* ========================================================================
Returned == pc = "returned"
Failed == ret \notin {"none", "ok"}

\* C1: for every device-scoped operation, when the socket was dialed and a
\* later step fails, the socket has been closed when the operation returns.
C1_ClosedOnFailure ==
    (op \in DeviceOps /\ Returned /\ dialed /\ Failed) => closes # <<>>

\* C2: in List, Push and Pull, once the operation holds its FramedTransport,
\* the socket is closed exactly once on every exit path, and by the
\* FramedTransport's Close: closing the SyncTransport does not close it.
C2_ClosedOnceByTransport ==
    (op \in SyncOps /\ Returned /\ attached) => closes = <<"tp">>

\* C3: no write to the destination writer happens after Logcat has returned.
C3_NoWriteAfterReturn ==
    [][(op = "Logcat" /\ Returned) => dst' = dst]_vars

\* C4: once Logcat's service command is verified, whenever the stop signal
\* fires, eventually the background copy has terminated, the socket is
\* closed and Logcat has returned (and all three stay so).
LogcatVerified == op = "Logcat" /\ gpc # "none"
LogcatStopped == gpc = "done" /\ closes # <<>> /\ Returned
C4_StopLeadsToReturn ==
    (LogcatVerified /\ exitFired) ~> [](LogcatVerified /\ LogcatStopped)

\* C4 witness: the stop signal fired while the copy had written a chunk,
\* and the copy has ended, the socket is closed and Logcat has returned.
C4_Witness ==
    LogcatVerified /\ exitFired /\ ctxDone /\ LogcatStopped /\ dst > 0

\* ========================================================================
\* transport.Send and _send (transport.go, src/unnamed/part_001 172-175,
\* 255-268).  Byte strings are sequences of one-character strings.
\* ========================================================================
DeviceIdle == UNCHANGED deviceVars

HexDigits == <<"0", "1", "2", "3", "4", "5", "6", "7", "8", "9",
               "a", "b", "c", "d", "e", "f">>

\* The digits of n in base 16, lowercase, most significant first (%x).
RECURSIVE SprintfX(_)
SprintfX(n) ==
    IF n < 16 THEN <<HexDigits[n + 1]>>
    ELSE SprintfX(n \div 16) \o <<HexDigits[(n % 16) + 1]>>

\* Zero padding on the left to a width of at least w.
RECURSIVE PadZero(_, _)
PadZero(s, w) == IF Len(s) >= w THEN s ELSE PadZero(<<"0">> \o s, w)

\* Mutant of Sprintf04x: the verb %x, without the zero padding to four.
Sprintf04x_NoPad(n) == SprintfX(n)

\* fmt.Sprintf("%04x", n)
Sprintf04x(n) == PadZero(SprintfX(n), 4)

\* The commands sent: every length up to MaxCmdLen, and the lengths around
\* the digit boundaries of the prefix.  Send does not look into the command,
\* so one text per length stands for all; the state keeps the length, and
\* the text is CommandOfLen of it.
CmdLens == (0 .. MaxCmdLen) \cup {255, 256, 4095, 4096, 65535, 65536}
CmdText == <<"h", "o", "s", "t", ":", "v", "e", "r", "s", "i", "o", "n">>
CommandOfLen(n) == [i \in 1 .. n |-> CmdText[((i - 1) % Len(CmdText)) + 1]]

\* msg := fmt.Sprintf("%04x%s", len(command), command): the formatted prefix
\* is kept in the state, the command follows it.
MsgOf(prefix, n) == prefix \o CommandOfLen(n)
MsgLen(prefix, n) == Len(prefix) + n

\* What one writer.Write(p) may return: all of p; while short writes remain,
\* fewer bytes (zero included) without error; or an error after some bytes.
ShortSizes(rest) == {k \in 0 .. MaxShortLen : k < rest}

\* The bytes the socket has accepted: each Write took the first k bytes of
\* the slice msg[totalSent:] it was offered, recorded as <<totalSent, k>>.
RECURSIVE Accepted(_, _)
Accepted(msg, slices) ==
    IF slices = <<>> THEN <<>>
    ELSE SubSeq(msg, slices[1][1] + 1, slices[1][1] + slices[1][2])
         \o Accepted(msg, Tail(slices))

InitSend ==
    /\ \E n \in CmdLens :
          snd = [pc |-> "send", n |-> n, prefix |-> <<>>, totalSent |-> 0,
                 slices |-> <<>>, short |-> 0, ret |-> "none"]
    /\ IdleDevice /\ IdlePush /\ IdleVerify /\ IdleList /\ IdleShell /\ IdleConn

\* transport.Send: the message is formatted and handed to _send.
SendFormat ==
    /\ snd.pc = "send"
    /\ snd' = [snd EXCEPT !.pc = "loop", !.prefix = Sprintf04x(snd.n)]
    /\ DeviceIdle /\ UNCHANGED <<push, vr, cl, sh, cn>>

\* _send: one turn of the loop, writer.Write(msg[totalSent:]).
SendWrite ==
    /\ snd.pc = "loop"
    /\ snd.totalSent < MsgLen(snd.prefix, snd.n)
    /\ LET rest == MsgLen(snd.prefix, snd.n) - snd.totalSent
           Take(k) == IF k = 0 THEN snd.slices
                      ELSE Append(snd.slices, <<snd.totalSent, k>>)
       IN  \/ \* the writer takes everything
              snd' = [snd EXCEPT !.slices = Take(rest),
                                 !.totalSent = snd.totalSent + rest]
           \/ \* a short write without error; zero bytes is ErrConnBroken
              /\ snd.short < MaxShortWrites
              /\ \E k \in ShortSizes(rest) :
                    IF k = 0
                    THEN snd' = [snd EXCEPT !.short = snd.short + 1,
                                            !.pc = "done",
                                            !.ret = "connection-broken"]
                    ELSE snd' = [snd EXCEPT !.short = snd.short + 1,
                                            !.slices = Take(k),
                                            !.totalSent = snd.totalSent + k]
           \/ \* the write fails after taking some bytes
              \E k \in ShortSizes(rest) :
                    snd' = [snd EXCEPT !.slices = Take(k),
                                       !.pc = "done", !.ret = "io-error"]
    /\ DeviceIdle /\ UNCHANGED <<push, vr, cl, sh, cn>>

\* Mutant of SendDone: the loop ends after the first bytes are accepted.
SendDone_AfterFirstWrite ==
    /\ snd.pc = "loop"
    /\ snd.totalSent >= 1
    /\ snd' = [snd EXCEPT !.pc = "done", !.ret = "ok"]
    /\ DeviceIdle /\ UNCHANGED <<push, vr, cl, sh, cn>>

\* _send: the loop ends when totalSent reaches len(msg).
SendDone ==
    /\ snd.pc = "loop"
    /\ snd.totalSent >= MsgLen(snd.prefix, snd.n)
    /\ snd' = [snd EXCEPT !.pc = "done", !.ret = "ok"]
    /\ DeviceIdle /\ UNCHANGED <<push, vr, cl, sh, cn>>

NextSend == SendFormat \/ SendWrite \/ SendDone

SpecSend == InitSend /\ [][NextSend]_vars

\* The bytes on the socket in the current state.
Written == Accepted(MsgOf(snd.prefix, snd.n), snd.slices)

\* ------------------------------------------------------------------------
\* Claims about transport.Send
\* ------------------------------------------------------------------------
HexDigitValue(c) ==
    CASE c = "0" -> 0 [] c = "1" -> 1 [] c = "2" -> 2 [] c = "3" -> 3
      [] c = "4" -> 4 [] c = "5" -> 5 [] c = "6" -> 6 [] c = "7" -> 7
      [] c = "8" -> 8 [] c = "9" -> 9 [] c = "a" -> 10 [] c = "b" -> 11
      [] c = "c" -> 12 [] c = "d" -> 13 [] c = "e" -> 14 [] c = "f" -> 15
      [] OTHER -> -1

\* A command of at most 0xFFFF bytes was sent with success.
SentInRange == snd.pc = "done" /\ snd.ret = "ok" /\ snd.n <= 65535

\* C8: for every command of at most 0xFFFF bytes, the bytes Send has written
\* when it succeeds are four lowercase hexadecimal characters whose value is
\* the byte length of the command, followed by the command, and nothing else.
C8_FramedSend ==
    SentInRange =>
        LET w == Written IN
        /\ Len(w) = 4 + snd.n
        /\ \A i \in 1 .. 4 : HexDigitValue(w[i]) >= 0
        /\ 4096 * HexDigitValue(w[1]) + 256 * HexDigitValue(w[2])
             + 16 * HexDigitValue(w[3]) + HexDigitValue(w[4]) = snd.n
        /\ SubSeq(w, 5, Len(w)) = CommandOfLen(snd.n)

\* C8 witness: a command of 0xFFFF bytes went out through short writes.
C8_Witness ==
    SentInRange /\ snd.n = 65535 /\ snd.short > 0

\* ========================================================================
\* transport.VerifyResponse (src/unnamed/part_001 177-232, 270-285) on the
\* bytes a server sends before it closes or falls silent.
\* ========================================================================
OKAY == <<"O", "K", "A", "Y">>
FAIL == <<"F", "A", "I", "L">>

Statuses == {OKAY, FAIL, <<"X", "X", "X", "X">>, <<"o", "k", "a", "y">>}
LengthFields == {<<"0", "0", "0", "0">>, <<"0", "0", "0", "2">>,
                 <<"0", "0", "0", "3">>, <<"0", "0", "0", "A">>,
                 <<"+", "0", "0", "2">>, <<"-", "0", "0", "1">>,
                 <<"z", "z", "z", "z">>}
MsgText == <<"e", "r", "r", "o", "r", "!", "d", "e", "v", "i", "c", "e">>
Bodies == {SubSeq(MsgText, 1, k) : k \in 0 .. MaxMsgLen}
         \cup {SubSeq(MsgText, 1, 10)}

\* Every reply and every truncation of one.
FullStreams == {st \o lf \o b : st \in Statuses, lf \in LengthFields, b \in Bodies}
Streams == {SubSeq(f, 1, k) : f \in FullStreams, k \in {0, 3, 4, 7, 8}}
           \cup FullStreams

\* _readN(reader, size): make([]byte, 0, size) panics on a negative size; no
\* read is made for size 0; otherwise io.ReadFull returns size bytes or, when
\* the stream ends or stalls before, an error.
ReadN(stream, pos, size) ==
    IF size < 0 THEN [out |-> "panic", bytes |-> <<>>, pos |-> pos]
    ELSE IF size = 0 THEN [out |-> "ok", bytes |-> <<>>, pos |-> pos]
    ELSE IF Len(stream) - pos >= size
         THEN [out |-> "ok", bytes |-> SubSeq(stream, pos + 1, pos + size),
               pos |-> pos + size]
         ELSE [out |-> "io-error", bytes |-> <<>>, pos |-> Len(stream)]

\* The value of one digit for strconv.ParseInt in base 16; -1: no digit.
ParseDigit(c) ==
    CASE c = "0" -> 0 [] c = "1" -> 1 [] c = "2" -> 2 [] c = "3" -> 3
      [] c = "4" -> 4 [] c = "5" -> 5 [] c = "6" -> 6 [] c = "7" -> 7
      [] c = "8" -> 8 [] c = "9" -> 9
      [] c \in {"a", "A"} -> 10 [] c \in {"b", "B"} -> 11
      [] c \in {"c", "C"} -> 12 [] c \in {"d", "D"} -> 13
      [] c \in {"e", "E"} -> 14 [] c \in {"f", "F"} -> 15
      [] OTHER -> -1

RECURSIVE ParseUint(_, _)
ParseUint(digits, acc) ==
    IF digits = <<>> THEN acc
    ELSE ParseUint(Tail(digits), 16 * acc + ParseDigit(Head(digits)))

\* strconv.ParseInt(s, 16, 64): an optional sign, then one or more digits.
ParseInt16(s) ==
    LET signed == s # <<>> /\ s[1] \in {"+", "-"}
        digits == IF signed THEN Tail(s) ELSE s
    IN  IF digits = <<>> \/ \E i \in 1 .. Len(digits) : ParseDigit(digits[i]) < 0
        THEN [ok |-> FALSE, val |-> 0]
        ELSE [ok |-> TRUE,
              val |-> IF signed /\ s[1] = "-" THEN 0 - ParseUint(digits, 0)
                      ELSE ParseUint(digits, 0)]

InitVerify ==
    /\ \E st \in Streams :
          vr = [pc |-> "status", stream |-> st, pos |-> 0, status |-> <<>>,
                size |-> 0, ret |-> "none", msg |-> <<>>]
    /\ IdleDevice /\ IdlePush /\ IdleSend /\ IdleList /\ IdleShell /\ IdleConn

\* status, err := t.ReadStringN(4); OKAY returns nil.
VerifyReadStatus ==
    /\ vr.pc = "status"
    /\ LET r == ReadN(vr.stream, vr.pos, 4) IN
       IF r.out # "ok"
       THEN vr' = [vr EXCEPT !.pc = "done", !.ret = r.out, !.pos = r.pos]
       ELSE IF r.bytes = OKAY
       THEN vr' = [vr EXCEPT !.pc = "done", !.ret = "ok", !.pos = r.pos,
                             !.status = r.bytes]
       ELSE vr' = [vr EXCEPT !.pc = "unpack", !.pos = r.pos, !.status = r.bytes]
    /\ DeviceIdle /\ UNCHANGED <<push, snd, cl, sh, cn>>

\* UnpackBytes: length, err := t.ReadStringN(4); strconv.ParseInt(length, 16, 64)
VerifyUnpackLength ==
    /\ vr.pc = "unpack"
    /\ LET r == ReadN(vr.stream, vr.pos, 4)
           p == ParseInt16(r.bytes)
       IN  IF r.out # "ok"
           THEN vr' = [vr EXCEPT !.pc = "done", !.ret = r.out, !.pos = r.pos]
           ELSE IF ~p.ok
           THEN vr' = [vr EXCEPT !.pc = "done", !.ret = "syntax-error",
                                 !.pos = r.pos]
           ELSE vr' = [vr EXCEPT !.pc = "message", !.pos = r.pos,
                                 !.size = p.val]
    /\ DeviceIdle /\ UNCHANGED <<push, snd, cl, sh, cn>>

\* UnpackBytes: t.ReadBytesN(int(size)); then fmt.Errorf("command failed: %s")
VerifyReadMessage ==
    /\ vr.pc = "message"
    /\ LET r == ReadN(vr.stream, vr.pos, vr.size) IN
       IF r.out # "ok"
       THEN vr' = [vr EXCEPT !.pc = "done", !.ret = r.out, !.pos = r.pos]
       ELSE vr' = [vr EXCEPT !.pc = "done", !.ret = "command-failed",
                             !.pos = r.pos, !.msg = r.bytes]
    /\ DeviceIdle /\ UNCHANGED <<push, snd, cl, sh, cn>>

NextVerify == VerifyReadStatus \/ VerifyUnpackLength \/ VerifyReadMessage

SpecVerify == InitVerify /\ [][NextVerify]_vars

\* ------------------------------------------------------------------------
\* Claims about transport.VerifyResponse
\* ------------------------------------------------------------------------
\* The server sent, after the status, four lowercase hex digits of value n
\* and at least n bytes.
WellFormedMessage(stream) ==
    /\ Len(stream) >= 8
    /\ \A i \in 5 .. 8 : HexDigitValue(stream[i]) >= 0
    /\ Len(stream) - 8 >=
          4096 * HexDigitValue(stream[5]) + 256 * HexDigitValue(stream[6])
          + 16 * HexDigitValue(stream[7]) + HexDigitValue(stream[8])
MessageSent(stream) ==
    SubSeq(stream, 9,
           8 + 4096 * HexDigitValue(stream[5]) + 256 * HexDigitValue(stream[6])
             + 16 * HexDigitValue(stream[7]) + HexDigitValue(stream[8]))

\* C9: of the four status bytes, OKAY gives success; FAIL gives command-failed
\* with the server's length-prefixed message; any other four bytes give a
\* protocol-error, not a command-failed, and nothing after them is read.
C9_ThreeOutcomes ==
    (vr.pc = "done" /\ Len(vr.stream) >= 4) =>
        LET status == SubSeq(vr.stream, 1, 4) IN
        /\ status = OKAY => vr.ret = "ok"
        /\ (status = FAIL /\ WellFormedMessage(vr.stream)) =>
              (vr.ret = "command-failed" /\ vr.msg = MessageSent(vr.stream))
        /\ status \notin {OKAY, FAIL} =>
              (vr.ret = "protocol-error" /\ vr.pos = 4)

\* ========================================================================
\* Client.List (client.go, src/file.go 134-168): the parsing of the
\* host:devices-l payload.  Strings are sequences of characters.
\* ========================================================================
\* unicode.IsSpace, for the characters the payloads hold
WhiteSpace == {" ", "\t", "\n", "\r"}
IsSpace(c) == c \in WhiteSpace

\* The first index of s that holds a character of set, 0 when none does
FirstIndex(s, set) ==
    IF \E i \in 1 .. Len(s) : s[i] \in set
    THEN CHOOSE i \in 1 .. Len(s) :
            s[i] \in set /\ \A j \in 1 .. i - 1 : s[j] \notin set
    ELSE 0

\* strings.Split(s, sep) for a one-character separator
RECURSIVE Split(_, _)
Split(s, sep) ==
    LET i == FirstIndex(s, {sep})
    IN  IF i = 0 THEN <<s>>
        ELSE <<SubSeq(s, 1, i - 1)>> \o Split(SubSeq(s, i + 1, Len(s)), sep)

RECURSIVE TrimLeft(_)
TrimLeft(s) == IF s # <<>> /\ IsSpace(Head(s)) THEN TrimLeft(Tail(s)) ELSE s

RECURSIVE TrimRight(_)
TrimRight(s) ==
    IF s # <<>> /\ IsSpace(s[Len(s)]) THEN TrimRight(SubSeq(s, 1, Len(s) - 1))
    ELSE s

\* strings.TrimSpace
TrimSpace(s) == TrimRight(TrimLeft(s))

\* strings.Fields: the maximal runs of characters that are not white space
RECURSIVE Fields(_)
Fields(s) ==
    LET t == TrimLeft(s)
        i == FirstIndex(t, WhiteSpace)
    IN  IF t = <<>> THEN <<>>
        ELSE IF i = 0 THEN <<t>>
        ELSE <<SubSeq(t, 1, i - 1)>> \o Fields(SubSeq(t, i, Len(t)))

\* The loop over sliceAttrs: split := strings.Split(field, ":"); key, val :=
\* split[0], split[1]; mapAttrs[key] = val.  split[1] is out of range, and
\* the program panics, when the field holds no colon.  The map is kept as a
\* function from the keys.
RECURSIVE ParseAttrs(_, _)
ParseAttrs(fields, map) ==
    IF fields = <<>> THEN [ok |-> TRUE, attrs |-> map]
    ELSE LET split == Split(Head(fields), ":") IN
         IF Len(split) < 2 THEN [ok |-> FALSE, attrs |-> map]
         ELSE ParseAttrs(Tail(fields),
                         [k \in (DOMAIN map) \cup {split[1]} |->
                             IF k = split[1] THEN split[2] ELSE map[k]])

\* The lines payloads are made of.
SampleLines == {
    <<"s", "1", " ", "d", " ", "p", ":", "x", " ", "m", ":", "y", " ", "t", ":", "1">>,
    <<"s", "2", "\t", "d", " ", " ", "p", ":", "x", " ", "m", ":", "y", " ", "t", ":", "2", " ">>,
    <<"b", "a", "d">>,
    <<"s", "4", " ", "d", " ", "p", ":", "x", " ", "m", ":", "y">>,
    <<"s", "5", " ", "d", " ", "p", ":", "x", " ", "u", "s", "b", " ", "t", ":", "5">>,
    <<"s", "6", " ", "d", " ", "k", ":", "a", ":", "b", " ", "m", ":", "y", " ", "t", ":", "6">>,
    <<>>,
    <<" ">> }

RECURSIVE JoinLines(_)
JoinLines(ls) ==
    IF ls = <<>> THEN <<>>
    ELSE IF Len(ls) = 1 THEN ls[1]
    ELSE ls[1] \o <<"\n">> \o JoinLines(Tail(ls))

Payloads ==
    {JoinLines(ls) : ls \in UNION {[1 .. n -> SampleLines] : n \in 0 .. MaxLines}}

InitList ==
    /\ \E pl \in Payloads :
          cl = [pc |-> "exec", payload |-> pl, lines |-> <<>>, idx |-> 0,
                devices |-> <<>>, warnings |-> <<>>, ret |-> "none"]
    /\ IdleDevice /\ IdlePush /\ IdleSend /\ IdleVerify /\ IdleShell /\ IdleConn

\* resp, err := c.executeCommand("host:devices-l"); strings.Split(resp, "\n")
ListExec ==
    /\ cl.pc = "exec"
    /\ \/ cl' = [cl EXCEPT !.pc = "done", !.ret = "io-error"]
       \/ cl' = [cl EXCEPT !.pc = "loop", !.lines = Split(cl.payload, "\n"),
                           !.idx = 1]
    /\ DeviceIdle /\ UNCHANGED <<push, snd, vr, sh, cn>>

\* One turn of the loop over the lines.
ListLine ==
    /\ cl.pc = "loop"
    /\ cl.idx <= Len(cl.lines)
    /\ LET line == TrimSpace(cl.lines[cl.idx])
           fields == Fields(line)
           parsed == ParseAttrs(SubSeq(fields, 3, Len(fields)), <<>>)
       IN  IF line = <<>>
           THEN cl' = [cl EXCEPT !.idx = cl.idx + 1]
           ELSE IF Len(fields) < 5 \/ Len(fields[1]) = 0
           THEN cl' = [cl EXCEPT !.idx = cl.idx + 1,
                                 !.warnings = Append(cl.warnings, line)]
           ELSE IF ~parsed.ok
           THEN cl' = [cl EXCEPT !.pc = "done", !.ret = "panic"]
           ELSE cl' = [cl EXCEPT !.idx = cl.idx + 1,
                                 !.devices = Append(cl.devices,
                                     [serial |-> fields[1], attrs |-> parsed.attrs])]
    /\ DeviceIdle /\ UNCHANGED <<push, snd, vr, sh, cn>>

\* The return after the loop: ErrWarnings(warnings) along with the devices.
ListReturn ==
    /\ cl.pc = "loop"
    /\ cl.idx > Len(cl.lines)
    /\ cl' = [cl EXCEPT !.pc = "done",
                        !.ret = IF Len(cl.warnings) > 0 THEN "warnings" ELSE "ok"]
    /\ DeviceIdle /\ UNCHANGED <<push, snd, vr, sh, cn>>

NextList == ListExec \/ ListLine \/ ListReturn

SpecClientList == InitList /\ [][NextList]_vars

\* ------------------------------------------------------------------------
\* Claims about Client.List
\* ------------------------------------------------------------------------
HasColon(field) == \E i \in 1 .. Len(field) : field[i] = ":"
BlankLine(l) == \A i \in 1 .. Len(l) : IsSpace(l[i])
\* At least five fields, and every field from index 2 on is key:value.
WellFormedLine(l) ==
    /\ Len(Fields(l)) >= 5
    /\ \A i \in 3 .. Len(Fields(l)) : HasColon(Fields(l)[i])
MalformedLine(l) == ~BlankLine(l) /\ ~WellFormedLine(l)
PayloadLines == Split(cl.payload, "\n")
WellFormedLines == SelectSeq(PayloadLines, WellFormedLine)

\* C10: for every payload, List does not abort: it returns the devices of
\* the well-formed lines in payload order, with a warnings error exactly
\* when some non-blank line is malformed (fewer than five fields, or a
\* field from index 2 on without a colon).
C10_ListNeverAborts ==
    (cl.pc = "done" /\ cl.ret # "io-error") =>
        /\ cl.ret \in {"ok", "warnings"}
        /\ Len(cl.devices) = Len(WellFormedLines)
        /\ \A i \in 1 .. Len(cl.devices) :
              cl.devices[i].serial = Fields(WellFormedLines[i])[1]
        /\ cl.ret = "warnings" <=>
              \E i \in 1 .. Len(PayloadLines) : MalformedLine(PayloadLines[i])

\* The text of a field before its first colon, and all the text after it
KeyOf(field) == SubSeq(field, 1, FirstIndex(field, {":"}) - 1)
ValueOf(field) == SubSeq(field, FirstIndex(field, {":"}) + 1, Len(field))

\* C11: every attribute field of a listed device is split at its first
\* colon only: attrs[key] is all the text after that colon, further colons
\* included (k:a:b gives attrs[k] = "a:b").
C11_FirstColonSplit ==
    (cl.pc = "done" /\ cl.ret \in {"ok", "warnings"}) =>
        \A i \in 1 .. Len(cl.devices) :
            LET fields == Fields(WellFormedLines[i]) IN
            \A j \in 3 .. Len(fields) :
                /\ KeyOf(fields[j]) \in DOMAIN cl.devices[i].attrs
                /\ cl.devices[i].attrs[KeyOf(fields[j])] = ValueOf(fields[j])

\* ========================================================================
\* Client.SerialList (client.go, src/file.go 116-131)
\* ========================================================================
InitSerialList ==
    /\ \E pl \in Payloads :
          cl = [pc |-> "serial-exec", payload |-> pl, lines |-> <<>>, idx |-> 0,
                serials |-> <<>>, ret |-> "none"]
    /\ IdleDevice /\ IdlePush /\ IdleSend /\ IdleVerify /\ IdleShell /\ IdleConn

\* resp, err := c.executeCommand("host:devices"); strings.Split(resp, "\n")
SerialListExec ==
    /\ cl.pc = "serial-exec"
    /\ \/ cl' = [cl EXCEPT !.pc = "serial-done", !.ret = "io-error"]
       \/ cl' = [cl EXCEPT !.pc = "serial-loop",
                           !.lines = Split(cl.payload, "\n"), !.idx = 1]
    /\ DeviceIdle /\ UNCHANGED <<push, snd, vr, sh, cn>>

\* One turn of the loop: f := strings.Fields(l); if len(f) < 2 { continue }
SerialListLine ==
    /\ cl.pc = "serial-loop"
    /\ cl.idx <= Len(cl.lines)
    /\ LET f == Fields(cl.lines[cl.idx]) IN
       IF Len(f) < 2
       THEN cl' = [cl EXCEPT !.idx = cl.idx + 1]
       ELSE cl' = [cl EXCEPT !.idx = cl.idx + 1,
                             !.serials = Append(cl.serials, f[1])]
    /\ DeviceIdle /\ UNCHANGED <<push, snd, vr, sh, cn>>

SerialListReturn ==
    /\ cl.pc = "serial-loop"
    /\ cl.idx > Len(cl.lines)
    /\ cl' = [cl EXCEPT !.pc = "serial-done", !.ret = "ok"]
    /\ DeviceIdle /\ UNCHANGED <<push, snd, vr, sh, cn>>

NextSerialList == SerialListExec \/ SerialListLine \/ SerialListReturn

SpecSerialList == InitSerialList /\ [][NextSerialList]_vars

\* ------------------------------------------------------------------------
\* Claims about Client.SerialList
\* ------------------------------------------------------------------------
NonBlankLine(l) == ~BlankLine(l)
NonBlankLines == SelectSeq(PayloadLines, NonBlankLine)

\* C12: SerialList returns, in payload order, the first field of every
\* non-blank line, lines of a single field included, and skips blank lines
\* only.
C12_SerialOfEveryLine ==
    (cl.pc = "serial-done" /\ cl.ret = "ok") =>
        /\ Len(cl.serials) = Len(NonBlankLines)
        /\ \A i \in 1 .. Len(cl.serials) :
              cl.serials[i] = Fields(NonBlankLines[i])[1]

\* ========================================================================
\* Device.Push after the sync: upgrade (device.go 351-370) with the SYNC
\* transport's Send, SendStream, sendChunk, SendStatus and VerifyStatus
\* (sync_transport.go 30-122).
\* ========================================================================
\* The source: its length and its bytes.  seed 0 is a source of equal bytes,
\* seed 1 one whose bytes differ from their neighbours.
SrcLens == (0 .. MaxSrcLen) \cup {syncMaxChunkSize, syncMaxChunkSize + 1}
SourceByte(src, i) == (src.seed * i) % 256
SourceBytes(src) == [i \in 1 .. src.len |-> SourceByte(src, i)]

RemotePath == <<"/", "s", "/", "x">>
Modes == {defaultFileMode, 493}
Mtimes == {0, 1700000000}

DecDigits == <<"0", "1", "2", "3", "4", "5", "6", "7", "8", "9">>
\* The verb %d
RECURSIVE SprintfD(_)
SprintfD(n) ==
    IF n < 10 THEN <<DecDigits[n + 1]>>
    ELSE SprintfD(n \div 10) \o <<DecDigits[(n % 10) + 1]>>

\* data := fmt.Sprintf("%s,%d", remotePath, mode[0])
SendData(path, mode) == path \o <<",">> \o SprintfD(mode)

\* binary.Write(msg, binary.LittleEndian, int32(n)), and the same of
\* uint32(n): the low 32 bits of n, least significant byte first
LittleEndian(n) ==
    <<n % 256, (n \div 256) % 256, (n \div 65536) % 256, (n \div 16777216) % 256>>

\* What the operation did on the socket, in order: a frame written (tag,
\* the four bytes after it, and the payload: the text of a SEND, the slice
\* <<off, n>> of the source of a DATA), or a read of n bytes.
WriteFrame(tag, aux, data, off, n) ==
    [dir |-> "w", tag |-> tag, aux |-> aux, data |-> data, off |-> off, n |-> n]
ReadBytes(what, n) ==
    [dir |-> "r", tag |-> what, aux |-> <<>>, data |-> <<>>, off |-> 0, n |-> n]

\* The sizes one reader.Read(b) may return with len(b) = syncMaxChunkSize
\* when rem bytes are left in the source.
ReadSizes(rem) == {n \in {0, 1, 2, rem, syncMaxChunkSize} : n <= Min(rem, syncMaxChunkSize)}

\* The status replies of the server: the tag, the auxiliary number, and how
\* many bytes follow the header before the connection falls silent.
StatusTags == {"OKAY", "FAIL", "DENT"}
Replies ==
    {r \in [tag : StatusTags, aux : 0 .. MaxAux, avail : 0 .. MaxAux] :
        r.avail <= r.aux}
NoReply == [tag |-> "none", aux |-> 0, avail |-> 0]

InitPush ==
    /\ \E len \in SrcLens, seed \in {0, 1}, mode \in Modes, mtime \in Mtimes :
          push = [pc |-> "send", src |-> [len |-> len, seed |-> seed],
                  path |-> RemotePath, mode |-> mode, mtime |-> mtime,
                  pos |-> 0, reads |-> 0, eof |-> FALSE, io |-> <<>>,
                  reply |-> NoReply, ret |-> "none"]
    /\ IdleDevice /\ IdleSend /\ IdleVerify /\ IdleList /\ IdleShell /\ IdleConn

PushOthers == DeviceIdle /\ UNCHANGED <<snd, vr, cl, sh, cn>>
PushFail(r) == push' = [push EXCEPT !.pc = "done", !.ret = r]

\* err = sync.Send("SEND", data)
PushSend ==
    /\ push.pc = "send"
    /\ LET data == SendData(push.path, push.mode) IN
       \/ push' = [push EXCEPT !.pc = "stream",
                     !.io = Append(@, WriteFrame("SEND", LittleEndian(Len(data)),
                                                 data, 0, 0))]
       \/ PushFail("io-error")
    /\ PushOthers

\* One turn of the loop of SendStream: n, err := reader.Read(b); io.EOF ends
\* the stream with success, another error fails, and otherwise b[:n] is
\* sent as a DATA chunk.
PushRead ==
    /\ push.pc = "stream"
    /\ LET rem == push.src.len - push.pos IN
       \/ \E n \in ReadSizes(rem) :
             \* (n, io.EOF): the reader has nothing after these n bytes
             /\ n = rem
             /\ push' = [push EXCEPT !.pc = "status", !.pos = @ + n, !.eof = TRUE]
       \/ \* (0, err) of a failing reader
          PushFail("read-error")
       \/ \E n \in ReadSizes(rem) :
             \* (n, nil)
             /\ push.reads < MaxReads
             /\ \/ push' = [push EXCEPT
                      !.pos = @ + n,
                      !.reads = @ + 1,
                      !.io = Append(@, WriteFrame("DATA", LittleEndian(n), <<>>,
                                                  push.pos, n))]
                \/ PushFail("io-error")
    /\ PushOthers

\* err = sync.SendStatus("DONE", uint32(modification.Unix()))
PushStatus ==
    /\ push.pc = "status"
    /\ \/ push' = [push EXCEPT !.pc = "verify",
                     !.io = Append(@, WriteFrame("DONE",
                                LittleEndian(push.mtime), <<>>, 0, 0))]
       \/ PushFail("io-error")
    /\ PushOthers

\* err = sync.VerifyStatus(): the tag and the number are read, then a
\* message of as many bytes as the number says, and only then is the tag
\* looked at.
PushVerify ==
    /\ push.pc = "verify"
    /\ \/ \* no status header arrives within the read timeout
          PushFail("io-error")
       \/ \E r \in Replies :
             LET header == Append(push.io, ReadBytes("header", 8)) IN
             IF r.avail < r.aux
             THEN push' = [push EXCEPT !.pc = "done", !.reply = r, !.io = header,
                                       !.ret = "io-error"]
             ELSE push' = [push EXCEPT !.pc = "done", !.reply = r,
                              !.io = IF r.aux > 0
                                     THEN Append(header, ReadBytes("message", r.aux))
                                     ELSE header,
                              !.ret = IF r.tag = "FAIL" THEN "sync-fail"
                                      ELSE IF r.tag # "OKAY" THEN "sync-unknown"
                                      ELSE "ok"]
    /\ PushOthers

NextPush == PushSend \/ PushRead \/ PushStatus \/ PushVerify

SpecPush == InitPush /\ [][NextPush]_vars

\* ------------------------------------------------------------------------
\* Claims about Push
\* ------------------------------------------------------------------------
IsData(f) == f.dir = "w" /\ f.tag = "DATA"
DataFrames == SelectSeq(push.io, IsData)
DoneWritten == \E i \in 1 .. Len(push.io) : push.io[i].dir = "w" /\ push.io[i].tag = "DONE"

\* The payload of a DATA frame: the bytes b[:n] the reader put in the buffer
FramePayload(f) == [i \in 1 .. f.n |-> SourceByte(push.src, f.off + i)]
RECURSIVE ConcatPayloads(_)
ConcatPayloads(fs) ==
    IF fs = <<>> THEN <<>> ELSE FramePayload(Head(fs)) \o ConcatPayloads(Tail(fs))

\* C5: whatever the way the reader delivers the source, once DONE is
\* written the payloads of the DATA frames, in order, make up the source.
C5_PayloadsAreSource ==
    (push.pc # "off" /\ DoneWritten) => ConcatPayloads(DataFrames) = SourceBytes(push.src)

\* C6: every DATA frame written has a payload of 1 to 65536 bytes.
C6_ChunkBounds ==
    push.pc # "off" =>
        \A i \in 1 .. Len(DataFrames) :
            /\ DataFrames[i].n >= 1
            /\ DataFrames[i].n <= syncMaxChunkSize

HeaderRead == \E i \in 1 .. Len(push.io) : push.io[i].dir = "r" /\ push.io[i].tag = "header"
WritesOf(io) == SelectSeq(io, LAMBDA f : f.dir = "w")
FirstRead(io) ==
    IF \E i \in 1 .. Len(io) : io[i].dir = "r"
    THEN CHOOSE i \in 1 .. Len(io) : io[i].dir = "r" /\ \A j \in 1 .. i - 1 : io[j].dir = "w"
    ELSE Len(io) + 1
\* binary.Read(sync.sock, binary.LittleEndian, &n): the uint32 of four bytes
FromLittleEndian(b) == b[1] + 256 * b[2] + 65536 * b[3] + 16777216 * b[4]

\* C7: a successful Push has written one SEND frame with "<path>,<mode>",
\* then DATA frames only, then one DONE frame with the mtime, and has read
\* the status header only after these; and once the status header is read,
\* Push succeeds exactly when its tag is OKAY.
C7_PushSequence ==
    push.pc = "done" =>
        /\ push.ret = "ok" =>
              LET w == WritesOf(push.io) IN
              /\ Len(w) >= 2
              /\ w[1].tag = "SEND"
              /\ w[1].data = push.path \o <<",">> \o SprintfD(push.mode)
              /\ FromLittleEndian(w[1].aux) = Len(w[1].data)
              /\ \A i \in 2 .. Len(w) - 1 : w[i].tag = "DATA"
              /\ w[Len(w)].tag = "DONE"
              /\ FromLittleEndian(w[Len(w)].aux) = push.mtime
              /\ FirstRead(push.io) = Len(w) + 1
              /\ push.io[FirstRead(push.io)].tag = "header"
        /\ HeaderRead => (push.ret = "ok" <=> push.reply.tag = "OKAY")

\* ========================================================================
\* Device.List after LIST is sent (device.go 297-310) with
\* syncTransport.ReadDirectoryEntry (sync_transport.go 175-214).  The reply
\* is a sequence of bytes, all of them numbers.
\* ========================================================================
DENT == <<68, 69, 78, 84>>
DONE == <<68, 79, 78, 69>>

\* The directory entries a server may report: a file, a directory, and an
\* entry whose fields are all zero.
SampleEntries == {
    [name |-> <<97>>, mode |-> 33188, size |-> 5, modTime |-> 1700000000],
    [name |-> <<115, 117>>, mode |-> 16877, size |-> 0, modTime |-> 1700000001],
    [name |-> <<>>, mode |-> 0, size |-> 0, modTime |-> 0] }

\* A DENT frame: the tag, mode, size, mtime and name length as little-endian
\* uint32, and the name.
DentFrame(e) ==
    DENT \o LittleEndian(e.mode) \o LittleEndian(e.size)
         \o LittleEndian(e.modTime) \o LittleEndian(Len(e.name)) \o e.name

RECURSIVE DentFrames(_)
DentFrames(es) ==
    IF es = <<>> THEN <<>> ELSE DentFrame(Head(es)) \o DentFrames(Tail(es))

DoneHeader == DONE \o LittleEndian(0)

\* The replies: up to MaxDents DENT frames, a DONE header, and after it
\* either nothing or one more frame; and every truncation of such a reply,
\* after which the connection falls silent.
DirLists == UNION {[1 .. n -> SampleEntries] : n \in 0 .. MaxDents}
DirTrailers == {<<>>} \cup {DentFrame(e) : e \in SampleEntries}

\* sync.ReadUint32(), and binary.Read of entry.mode: four bytes, no deadline
ReadUint32(stream, pos) ==
    LET r == ReadN(stream, pos, 4) IN
    IF r.out = "ok" THEN [out |-> "ok", n |-> FromLittleEndian(r.bytes), pos |-> r.pos]
    ELSE [out |-> r.out, n |-> 0, pos |-> r.pos]

NoEntry == [name |-> <<>>, mode |-> 0, size |-> 0, modTime |-> 0]

\* syncTransport.ReadDirectoryEntry: (entry, ok, err) and the new position.
ReadDirectoryEntry(stream, pos) ==
    LET status == ReadN(stream, pos, 4)
        mode == ReadUint32(stream, status.pos)
        size == ReadUint32(stream, mode.pos)
        lastModUnix == ReadUint32(stream, size.pos)
        fLen == ReadUint32(stream, lastModUnix.pos)
        name == ReadN(stream, fLen.pos, fLen.n)
        Err(at) == [entry |-> NoEntry, ok |-> FALSE, err |-> "io-error", pos |-> at]
    IN  IF status.out # "ok" THEN Err(status.pos)
        ELSE IF status.bytes = DONE
        THEN [entry |-> NoEntry, ok |-> FALSE, err |-> "nil", pos |-> status.pos]
        ELSE IF mode.out # "ok" THEN Err(mode.pos)
        ELSE IF size.out # "ok" THEN Err(size.pos)
        ELSE IF lastModUnix.out # "ok" THEN Err(lastModUnix.pos)
        ELSE IF fLen.out # "ok" THEN Err(fLen.pos)
        ELSE IF name.out # "ok" THEN Err(name.pos)
        ELSE [entry |-> [name |-> name.bytes, mode |-> mode.n, size |-> size.n,
                         modTime |-> lastModUnix.n],
              ok |-> TRUE, err |-> "nil", pos |-> name.pos]

InitDeviceList ==
    /\ \E es \in DirLists, tr \in DirTrailers :
          LET full == DentFrames(es) \o DoneHeader \o tr IN
          \E k \in 0 .. Len(full) :
             vr = [pc |-> "dir-loop", frames |-> es, stream |-> SubSeq(full, 1, k),
                   pos |-> 0, devFileInfos |-> <<>>, ret |-> "none"]
    /\ IdleDevice /\ IdlePush /\ IdleSend /\ IdleList /\ IdleShell /\ IdleConn

\* Mutant of ListReadEntry: the entry read is put in front of the others.
ListReadEntry_Prepend ==
    /\ vr.pc = "dir-loop"
    /\ LET r == ReadDirectoryEntry(vr.stream, vr.pos) IN
       IF r.err # "nil"
       THEN vr' = [vr EXCEPT !.pc = "dir-done", !.pos = r.pos, !.ret = r.err,
                             !.devFileInfos = <<>>]
       ELSE IF ~r.ok
       THEN vr' = [vr EXCEPT !.pc = "dir-done", !.pos = r.pos, !.ret = "ok"]
       ELSE vr' = [vr EXCEPT !.pos = r.pos,
                             !.devFileInfos = <<r.entry>> \o @]
    /\ DeviceIdle /\ UNCHANGED <<push, snd, cl, sh, cn>>

\* One turn of the loop of Device.List: an error returns nil and the error,
\* !ok leaves the loop and returns the entries, an entry is appended.
ListReadEntry ==
    /\ vr.pc = "dir-loop"
    /\ LET r == ReadDirectoryEntry(vr.stream, vr.pos) IN
       IF r.err # "nil"
       THEN vr' = [vr EXCEPT !.pc = "dir-done", !.pos = r.pos, !.ret = r.err,
                             !.devFileInfos = <<>>]
       ELSE IF ~r.ok
       THEN vr' = [vr EXCEPT !.pc = "dir-done", !.pos = r.pos, !.ret = "ok"]
       ELSE vr' = [vr EXCEPT !.pos = r.pos,
                             !.devFileInfos = Append(@, r.entry)]
    /\ DeviceIdle /\ UNCHANGED <<push, snd, cl, sh, cn>>

NextDeviceList == ListReadEntry

SpecDeviceList == InitDeviceList /\ [][NextDeviceList]_vars

\* ------------------------------------------------------------------------
\* Claims about Device.List
\* ------------------------------------------------------------------------
\* The reply holds all the DENT frames and the DONE header after them.
DoneHeaderAt == Len(DentFrames(vr.frames)) + Len(DoneHeader)
ListReplyComplete == vr.pc = "dir-done" /\ Len(vr.stream) >= DoneHeaderAt

\* C13: for a reply of n DENT frames and a DONE header, Device.List returns
\* the n entries in receipt order, each with the mode, size, mtime and name
\* of its frame, and has read nothing after the DONE header.
C13_EntriesInOrder ==
    ListReplyComplete =>
        /\ vr.ret = "ok"
        /\ vr.devFileInfos = vr.frames
        /\ vr.pos <= DoneHeaderAt

C13_Witness ==
    /\ ListReplyComplete
    /\ vr.ret = "ok"
    /\ Len(vr.devFileInfos) = MaxDents
    /\ vr.devFileInfos[1] # vr.devFileInfos[2]
    /\ Len(vr.stream) > DoneHeaderAt

\* ========================================================================
\* Device.Pull after RECV is sent (device.go 392-396) with
\* syncTransport.WriteStream and readChunk (sync_transport.go 124-173).
\* ========================================================================
DATA == <<68, 65, 84, 65>>
SyncFAIL == <<70, 65, 73, 76>>

\* The frames of a reply: DATA with a payload, DONE, FAIL with a message.
SampleFrames == {
    [tag |-> DATA, body |-> <<1>>],
    [tag |-> DATA, body |-> <<2, 3>>],
    [tag |-> DATA, body |-> <<>>],
    [tag |-> DONE, body |-> <<>>],
    [tag |-> SyncFAIL, body |-> <<101>>] }

FrameBytes(f) == f.tag \o LittleEndian(Len(f.body)) \o f.body

RECURSIVE FramesBytes(_)
FramesBytes(fs) ==
    IF fs = <<>> THEN <<>> ELSE FrameBytes(Head(fs)) \o FramesBytes(Tail(fs))

PullReplies == UNION {[1 .. n -> SampleFrames] : n \in 0 .. MaxFrames}

\* io.ReadFull under _readN and binary.Read: size bytes; io.EOF when the
\* peer has closed and no byte is left; otherwise an error (unexpected EOF,
\* or the read deadline when the connection is silent).  _readN makes no
\* read for size 0.
ReadFull(stream, closed, pos, size) ==
    IF size = 0 THEN [out |-> "ok", bytes |-> <<>>, pos |-> pos]
    ELSE IF Len(stream) - pos >= size
    THEN [out |-> "ok", bytes |-> SubSeq(stream, pos + 1, pos + size),
          pos |-> pos + size]
    ELSE IF closed /\ pos = Len(stream)
    THEN [out |-> "EOF", bytes |-> <<>>, pos |-> pos]
    ELSE [out |-> "io-error", bytes |-> <<>>, pos |-> Len(stream)]

\* syncTransport.readChunk: (chunk, err), the message of a FAIL, and the new
\* position.  The errors of ReadStringN(4) and of the DATA payload's
\* ReadBytesN are returned as they are, io.EOF included; the others are
\* wrapped.
readChunk(stream, closed, pos) ==
    LET status == ReadFull(stream, closed, pos, 4)
        length == ReadFull(stream, closed, status.pos, 4)
        tmpUint32 == FromLittleEndian(length.bytes)
        body == ReadFull(stream, closed, length.pos, tmpUint32)
        R(chunk, err, msg, at) == [chunk |-> chunk, err |-> err, msg |-> msg, pos |-> at]
    IN  IF status.out # "ok" THEN R(<<>>, status.out, <<>>, status.pos)
        ELSE IF length.out # "ok" THEN R(<<>>, "io-error", <<>>, length.pos)
        ELSE IF status.bytes = SyncFAIL
        THEN IF body.out # "ok" THEN R(<<>>, "io-error", <<>>, body.pos)
             ELSE R(<<>>, "sync-fail", body.bytes, body.pos)
        ELSE IF status.bytes = DONE THEN R(<<>>, "EOF", <<>>, length.pos)
        ELSE IF status.bytes = DATA
        THEN IF body.out # "ok" THEN R(<<>>, body.out, <<>>, body.pos)
             ELSE R(body.bytes, "nil", <<>>, body.pos)
        ELSE R(<<>>, "sync-unknown", <<>>, length.pos)

InitPull ==
    /\ \E fs \in PullReplies, closed \in BOOLEAN :
          LET full == FramesBytes(fs) IN
          \E k \in 0 .. Len(full) :
             vr = [pc |-> "pull-loop", frames |-> fs, stream |-> SubSeq(full, 1, k),
                   closed |-> closed, pos |-> 0, dest |-> <<>>, ret |-> "none",
                   msg |-> <<>>]
    /\ IdleDevice /\ IdlePush /\ IdleSend /\ IdleList /\ IdleShell /\ IdleConn

\* Mutant of PullChunk: a FAIL frame ends the stream like DONE.
PullChunk_FailIsDone ==
    /\ vr.pc = "pull-loop"
    /\ LET r == readChunk(vr.stream, vr.closed, vr.pos) IN
       IF r.err \in {"EOF", "sync-fail"}
       THEN vr' = [vr EXCEPT !.pc = "pull-done", !.pos = r.pos, !.ret = "ok"]
       ELSE IF r.err # "nil"
       THEN vr' = [vr EXCEPT !.pc = "pull-done", !.pos = r.pos, !.ret = r.err,
                             !.msg = r.msg]
       ELSE \/ vr' = [vr EXCEPT !.pos = r.pos, !.dest = @ \o r.chunk]
            \/ \E k \in 0 .. Len(r.chunk) - 1 :
                  vr' = [vr EXCEPT !.pc = "pull-done", !.pos = r.pos,
                                   !.dest = @ \o SubSeq(r.chunk, 1, k),
                                   !.ret = "write-error"]
    /\ DeviceIdle /\ UNCHANGED <<push, snd, cl, sh, cn>>

\* One turn of the loop of WriteStream: io.EOF from readChunk is success,
\* another error fails, and a chunk is written to dest with _send, which
\* writes all of it or fails after a part of it.
PullChunk ==
    /\ vr.pc = "pull-loop"
    /\ LET r == readChunk(vr.stream, vr.closed, vr.pos) IN
       IF r.err = "EOF"
       THEN vr' = [vr EXCEPT !.pc = "pull-done", !.pos = r.pos, !.ret = "ok"]
       ELSE IF r.err # "nil"
       THEN vr' = [vr EXCEPT !.pc = "pull-done", !.pos = r.pos, !.ret = r.err,
                             !.msg = r.msg]
       ELSE \/ vr' = [vr EXCEPT !.pos = r.pos, !.dest = @ \o r.chunk]
            \/ \E k \in 0 .. Len(r.chunk) - 1 :
                  vr' = [vr EXCEPT !.pc = "pull-done", !.pos = r.pos,
                                   !.dest = @ \o SubSeq(r.chunk, 1, k),
                                   !.ret = "write-error"]
    /\ DeviceIdle /\ UNCHANGED <<push, snd, cl, sh, cn>>

NextPull == PullChunk

SpecPull == InitPull /\ [][NextPull]_vars

\* ------------------------------------------------------------------------
\* Claims about Device.Pull
\* ------------------------------------------------------------------------
\* The index of the first DONE or FAIL frame of the reply, 0 when none
FirstEnd(fs) ==
    IF \E i \in 1 .. Len(fs) : fs[i].tag # DATA
    THEN CHOOSE i \in 1 .. Len(fs) :
            fs[i].tag # DATA /\ \A j \in 1 .. i - 1 : fs[j].tag = DATA
    ELSE 0

RECURSIVE PayloadsOf(_)
PayloadsOf(fs) == IF fs = <<>> THEN <<>> ELSE Head(fs).body \o PayloadsOf(Tail(fs))
DataBefore(fs, i) == PayloadsOf(SubSeq(fs, 1, i - 1))

\* The reply has arrived up to the end of its first DONE or FAIL frame, and
\* the destination writer has taken what it was given.
PullReplyComplete ==
    /\ vr.pc = "pull-done"
    /\ vr.ret # "write-error"
    /\ FirstEnd(vr.frames) > 0
    /\ Len(vr.stream) >= Len(FramesBytes(SubSeq(vr.frames, 1, FirstEnd(vr.frames))))

\* C14: Pull writes to the destination the payloads of the DATA frames
\* before the first DONE, in order, and succeeds; when a FAIL frame comes
\* first it fails with the FAIL message, having written the payloads
\* before that frame only.
C14_PullWritesData ==
    PullReplyComplete =>
        LET end == FirstEnd(vr.frames) IN
        /\ vr.dest = DataBefore(vr.frames, end)
        /\ vr.frames[end].tag = DONE => vr.ret = "ok"
        /\ vr.frames[end].tag = SyncFAIL =>
              vr.ret = "sync-fail" /\ vr.msg = vr.frames[end].body

C14_Witness ==
    /\ PullReplyComplete
    /\ FirstEnd(vr.frames) = MaxFrames
    /\ vr.frames[MaxFrames].tag = DONE
    /\ vr.ret = "ok"
    /\ Len(vr.dest) = 3

\* ========================================================================
\* Device.RunShellCommand (device.go 175-195) from the call to the string it
\* returns, with executeCommand (230-242) and executeCommandStreaming
\* (244-276).  The closes of the socket are the subject of Spec.
\* ========================================================================
\* What the command writes before it ends: a sequence of chunks.
OutputChunks == <<"a", "b", "c">>
Outputs == {SubSeq(OutputChunks, 1, n) : n \in 0 .. MaxOutput}

ShellFrame == DeviceIdle /\ UNCHANGED <<push, snd, vr, cl, cn>>
ShellReturn(r, b) == sh' = [sh EXCEPT !.pc = "returned", !.ret = r, !.result = b]

InitShell ==
    /\ \E cmd \in Cmds, args \in ArgLists, out \in Outputs :
          sh = [pc |-> "call", cmd |-> cmd, args |-> args, dialed |-> FALSE,
                wire |-> <<>>, acked |-> FALSE, output |-> out, srvSent |-> 0,
                srvClosed |-> FALSE, late |-> FALSE, got |-> 0,
                ret |-> "none", result |-> <<>>]
    /\ IdleDevice /\ IdlePush /\ IdleSend /\ IdleVerify /\ IdleList /\ IdleConn

\* Mutant of ShellCall: no test of the joined command line.
ShellCall_NoCheck ==
    /\ sh.pc = "call"
    /\ sh' = [sh EXCEPT !.pc = "attach"]
    /\ ShellFrame

\* RunShellCommand -> RunShellCommandStreaming: the command line is joined
\* and a blank one is refused.
ShellCall ==
    /\ sh.pc = "call"
    /\ IF IsBlank(ShellLine(sh.cmd, sh.args))
       THEN ShellReturn("empty-command", <<>>)
       ELSE sh' = [sh EXCEPT !.pc = "attach"]
    /\ ShellFrame

\* createDeviceTransport: net.Dial, then host:transport:<serial> is sent and
\* its answer verified.
ShellAttach ==
    /\ sh.pc = "attach"
    /\ \/ ShellReturn("io-error", <<>>)
       \/ \E e \in {"io-error", "command-failed"} :
             sh' = [sh EXCEPT !.pc = "returned", !.ret = e, !.dialed = TRUE]
       \/ sh' = [sh EXCEPT !.pc = "service", !.dialed = TRUE,
                           !.wire = Append(@, "host:transport:" \o Serial)]
    /\ ShellFrame

\* executeCommandStreaming: tp.Send(command), tp.VerifyResponse(); the read
\* of the status arms the read deadline, the last time it is set.
ShellService ==
    /\ sh.pc = "service"
    /\ \/ \E e \in {"io-error", "command-failed"} : ShellReturn(e, <<>>)
       \/ sh' = [sh EXCEPT !.pc = "read", !.acked = TRUE,
                    !.wire = Append(@, "shell:" \o ShellLine(sh.cmd, sh.args))]
    /\ ShellFrame

\* The command writes its next chunk of output.
ShellOutput ==
    /\ sh.pc = "read"
    /\ ~sh.srvClosed
    /\ sh.srvSent < Len(sh.output)
    /\ sh' = [sh EXCEPT !.srvSent = @ + 1]
    /\ ShellFrame

\* The command ends: the server closes the stream.
ShellExit ==
    /\ sh.pc = "read"
    /\ ~sh.srvClosed
    /\ sh.srvSent = Len(sh.output)
    /\ sh' = [sh EXCEPT !.srvClosed = TRUE]
    /\ ShellFrame

\* readTimeout has passed since VerifyResponse armed the deadline.
ShellDeadline ==
    /\ sh.pc = "read"
    /\ ~sh.late
    /\ sh' = [sh EXCEPT !.late = TRUE]
    /\ ShellFrame

\* One Read of io.ReadAll(r) in executeCommand: past the deadline it fails
\* and RunShellCommand returns "" and the error; else it takes the bytes
\* that have arrived; at EOF the bytes read are returned as a string.
ShellRead ==
    /\ sh.pc = "read"
    /\ IF sh.late THEN ShellReturn("io-error", <<>>)
       ELSE IF sh.got < sh.srvSent THEN sh' = [sh EXCEPT !.got = sh.srvSent]
       ELSE /\ sh.srvClosed
            /\ ShellReturn("ok", SubSeq(sh.output, 1, sh.got))
    /\ ShellFrame

NextShell ==
    \/ ShellCall \/ ShellAttach \/ ShellService
    \/ ShellOutput \/ ShellExit \/ ShellDeadline \/ ShellRead

SpecShell == InitShell /\ [][NextShell]_vars

\* ------------------------------------------------------------------------
\* Claims about RunShellCommand
\* ------------------------------------------------------------------------
ShellReturned == sh.pc = "returned"

\* C15: once the server has acknowledged the service and closed the stream,
\* RunShellCommand has returned nothing but success with exactly the bytes
\* the server sent after the OKAY.
C15_ShellReturnsOutput ==
    (ShellReturned /\ sh.acked /\ sh.srvClosed) =>
        /\ sh.ret = "ok"
        /\ sh.result = sh.output

\* cmd and the args, joined by single spaces
JoinedCommand == Join(<<sh.cmd>> \o sh.args)

\* C16: the service command sent is "shell:" followed by cmd and the args
\* joined by single spaces, with no trailing space when there are no args.
C16_ShellCommandSent ==
    (sh.pc # "off" /\ sh.acked) => sh.wire[Len(sh.wire)] = "shell:" \o JoinedCommand

\* C17: when cmd joined with its args is blank, nothing is dialed and
\* nothing is sent, and RunShellCommand returns the empty-command error.
C17_BlankCommandRefused ==
    (sh.pc # "off" /\ IsBlank(JoinedCommand)) =>
        /\ ~sh.dialed
        /\ sh.wire = <<>>
        /\ sh.pc \in {"call", "returned"}
        /\ ShellReturned => sh.ret = "empty-command"

C17_Witness ==
    /\ ShellReturned
    /\ IsBlank(JoinedCommand)
    /\ sh.cmd = " "
    /\ sh.ret = "empty-command"

\* ========================================================================
\* A Client and the sockets of its operations (client.go, src/file.go
\* 84-98, 250-310): the construction probe, executeCommand,
\* executeCommandWithoutResponse and KillServer, against a server that may
\* go down and come back at any time.
\* ========================================================================
ResponseOps == {"Version", "SerialList", "List", "ForwardList", "ConnectHost",
                "DisconnectHost", "DisconnectAll"}
NoResponseOps == {"ForwardKillAll"}
ClientOps == ResponseOps \cup NoResponseOps \cup {"KillServer"}

ConnFrame == DeviceIdle /\ UNCHANGED <<push, snd, vr, cl, sh>>

\* The sockets dialed so far, each with the call that dialed it, the framed
\* commands sent on it and the Close calls made on it.
NewSocket(call) == [call |-> call, sends |-> 0, closes |-> 0]

InitClient ==
    /\ \E up \in BOOLEAN :
          cn = [pc |-> "new", up |-> up, op |-> "none", calls |-> 0, sock |-> 0,
                dials |-> 0, socks |-> <<>>, reach |-> up, clean |-> up,
                failures |-> 0, ret |-> "none"]
    /\ IdleDevice /\ IdlePush /\ IdleSend /\ IdleVerify /\ IdleList /\ IdleShell

\* The server goes down or comes back; a call in progress is no longer one
\* the server was reachable for throughout.
ServerToggle ==
    /\ cn.pc # "off"
    /\ cn' = [cn EXCEPT !.up = ~@, !.clean = FALSE]
    /\ ConnFrame

\* NewClientWithHostAndPort: the probe dials and closes; without a
\* connection no usable Client is returned.
NewClientProbe ==
    /\ cn.pc = "new"
    /\ IF cn.up
       THEN cn' = [cn EXCEPT !.pc = "idle", !.dials = 1, !.reach = TRUE,
                     !.socks = Append(@, [NewSocket(0) EXCEPT !.closes = 1])]
       ELSE cn' = [cn EXCEPT !.pc = "no-client", !.dials = 1, !.reach = FALSE,
                             !.ret = "io-error"]
    /\ ConnFrame

\* The state in which a public operation called now starts.
Called(o) ==
    [cn EXCEPT !.op = o, !.calls = @ + 1, !.sock = 0, !.dials = 1,
               !.reach = cn.up, !.clean = cn.up, !.ret = "none",
               !.failures = IF cn.ret \notin {"none", "ok"} THEN @ + 1 ELSE @]

\* Mutant of ClientCall: a Client that has failed once dials no more.
ClientCall_Sticky ==
    /\ cn.pc \in {"idle", "returned"}
    /\ cn.calls < MaxCalls
    /\ \E o \in ClientOps :
          IF cn.up /\ Called(o).failures = 0
          THEN cn' = [Called(o) EXCEPT !.pc = "send", !.sock = Len(cn.socks) + 1,
                         !.socks = Append(@, NewSocket(cn.calls + 1))]
          ELSE cn' = [Called(o) EXCEPT !.pc = "returned", !.ret = "io-error"]
    /\ ConnFrame

\* A public operation is called on the Client.  Each begins with
\* createTransport: net.Dial to the server; on failure the operation returns
\* the error, and no Close is deferred.
ClientCall ==
    /\ cn.pc \in {"idle", "returned"}
    /\ cn.calls < MaxCalls
    /\ \E o \in ClientOps :
          IF cn.up
          THEN cn' = [Called(o) EXCEPT !.pc = "send", !.sock = Len(cn.socks) + 1,
                         !.socks = Append(@, NewSocket(cn.calls + 1))]
          ELSE cn' = [Called(o) EXCEPT !.pc = "returned", !.ret = "io-error"]
    /\ ConnFrame

\* The operation returns r, and the deferred tp.Close() runs.
Returning(r) ==
    [cn EXCEPT !.pc = "returned", !.ret = r, !.socks[cn.sock].closes = @ + 1]

\* Mutant of ClientSend: KillServer returns without its tp.Close().
ClientSend_KillLeaks ==
    /\ cn.pc = "send"
    /\ IF cn.up
       THEN LET sent == [cn EXCEPT !.socks[cn.sock].sends = @ + 1] IN
            IF cn.op = "KillServer"
            THEN cn' = [sent EXCEPT !.pc = "returned", !.ret = "ok"]
            ELSE cn' = [sent EXCEPT !.pc = "verify"]
       ELSE cn' = Returning("io-error")
    /\ ConnFrame

\* tp.Send(command).  KillServer returns after it.
ClientSend ==
    /\ cn.pc = "send"
    /\ IF cn.up
       THEN LET sent == [cn EXCEPT !.socks[cn.sock].sends = @ + 1] IN
            IF cn.op = "KillServer"
            THEN cn' = [sent EXCEPT !.pc = "returned", !.ret = "ok",
                                    !.socks[cn.sock].closes = @ + 1]
            ELSE cn' = [sent EXCEPT !.pc = "verify"]
       ELSE cn' = Returning("io-error")
    /\ ConnFrame

\* tp.VerifyResponse(): OKAY, or FAIL from a server that refuses the
\* command; an error when the server is gone.
\* executeCommandWithoutResponse returns after it.
ClientVerify ==
    /\ cn.pc = "verify"
    /\ IF cn.up
       THEN \/ IF cn.op \in NoResponseOps THEN cn' = Returning("ok")
               ELSE cn' = [cn EXCEPT !.pc = "unpack"]
            \/ cn' = [Returning("command-failed") EXCEPT !.clean = FALSE]
       ELSE cn' = Returning("io-error")
    /\ ConnFrame

\* tp.UnpackString() in executeCommand, and what the operation makes of the
\* response: a parse or prefix error when the answer is not the one the
\* operation expects.
ClientUnpack ==
    /\ cn.pc = "unpack"
    /\ IF cn.up
       THEN \/ cn' = Returning("ok")
            \/ cn' = [Returning("bad-response") EXCEPT !.clean = FALSE]
       ELSE cn' = Returning("io-error")
    /\ ConnFrame

NextClient ==
    \/ ServerToggle \/ NewClientProbe \/ ClientCall
    \/ ClientSend \/ ClientVerify \/ ClientUnpack

SpecClient == InitClient /\ [][NextClient]_vars

\* ------------------------------------------------------------------------
\* Claims about the Client's operations
\* ------------------------------------------------------------------------
ClientAtRest == cn.pc \in {"idle", "returned", "no-client"}

\* C18: when an operation of the Client (the construction probe included)
\* has returned, it has dialed once, every socket dialed so far has been
\* closed exactly once and has carried at most one framed command, and no
\* two operations have used the same socket.
C18_OneSocketPerOperation ==
    ClientAtRest =>
        /\ cn.dials = 1
        /\ \A i \in 1 .. Len(cn.socks) :
              /\ cn.socks[i].closes = 1
              /\ cn.socks[i].sends <= 1
              /\ \A j \in 1 .. i - 1 : cn.socks[j].call < cn.socks[i].call

C18_Witness ==
    /\ cn.pc = "returned"
    /\ cn.calls = MaxCalls
    /\ Len(cn.socks) = MaxCalls + 1
    /\ cn.op = "KillServer"
    /\ cn.failures > 0

\* C20: an operation called while the server is unreachable fails with an
\* I/O error; one called while the server is reachable, and that the server
\* answers correctly throughout, succeeds, however many earlier calls have
\* failed; and no operation dials more than once.
C20_NeverInvalidated ==
    cn.pc = "returned" =>
        /\ ~cn.reach => cn.ret = "io-error"
        /\ cn.clean => cn.ret = "ok"
        /\ cn.dials = 1

C20_Witness ==
    /\ cn.pc = "returned"
    /\ cn.clean
    /\ cn.ret = "ok"
    /\ cn.failures = MaxCalls - 1

\* ========================================================================
\* A Device produced by Client.List and what its callers can do with it
\* (device.go 52-97).  A Go map is a reference: the heap holds the map
\* objects, a Device value holds the reference to its attrs.
\* ========================================================================
AttrKeys == {"product", "model", "usb"}
AttrValues == {"x", "y"}

\* The maps List may build: mapAttrs := map[string]string{} filled from the
\* fields of the line.
AttrMaps == UNION {[ks -> AttrValues] : ks \in SUBSET AttrKeys}

AttrsFrame == DeviceIdle /\ UNCHANGED <<push, snd, vr, sh, cn>>

\* Device{adbClient: c, serial: fields[0], attrs: mapAttrs}: the Device holds
\* reference 1; the caller holds no map yet and has made no copy.
InitDeviceAttrs ==
    /\ \E m \in AttrMaps :
          cl = [pc |-> "device", heap |-> <<m>>, produced |-> m,
                dev |-> [serial |-> "s1", attrs |-> 1],
                copy |-> [serial |-> "none", attrs |-> 0], held |-> 0, reads |-> 0]
    /\ IdleDevice /\ IdlePush /\ IdleSend /\ IdleVerify /\ IdleShell /\ IdleConn

\* d.Product(), d.Model(), d.Usb(): d.attrs[key], or an error without it
Attribute(d, key) ==
    IF key \in DOMAIN cl.heap[d.attrs] THEN cl.heap[d.attrs][key] ELSE "error"

\* copy := d: the Device value is copied, the reference with it.
CopyDevice ==
    /\ cl.pc = "device"
    /\ cl.copy.attrs = 0
    /\ cl' = [cl EXCEPT !.copy = cl.dev]
    /\ AttrsFrame

\* m := d.DeviceInfo(), on the Device or on the copy: return d.attrs
CallDeviceInfo ==
    /\ cl.pc = "device"
    /\ \E d \in {cl.dev, cl.copy} :
          /\ d.attrs # 0
          /\ cl' = [cl EXCEPT !.held = d.attrs]
    /\ AttrsFrame

\* The caller reads the Device: Product, Model, Usb.  Nothing is written.
CallAccessors ==
    /\ cl.pc = "device"
    /\ cl.reads = 0
    /\ cl' = [cl EXCEPT !.reads = 1]
    /\ AttrsFrame

\* m[key] = value, by the caller, on the map it was given.
CallerStore ==
    /\ cl.pc = "device"
    /\ cl.held # 0
    /\ \E k \in AttrKeys, v \in AttrValues :
          LET m == cl.heap[cl.held] IN
          cl' = [cl EXCEPT !.heap[cl.held] =
                    [x \in (DOMAIN m) \cup {k} |-> IF x = k THEN v ELSE m[x]]]
    /\ AttrsFrame

\* delete(m, key), by the caller, on the map it was given.
CallerDelete ==
    /\ cl.pc = "device"
    /\ cl.held # 0
    /\ \E k \in AttrKeys :
          LET m == cl.heap[cl.held] IN
          cl' = [cl EXCEPT !.heap[cl.held] = [x \in (DOMAIN m) \ {k} |-> m[x]]]
    /\ AttrsFrame

NextDeviceAttrs ==
    CopyDevice \/ CallDeviceInfo \/ CallAccessors \/ CallerStore \/ CallerDelete

SpecDeviceAttrs == InitDeviceAttrs /\ [][NextDeviceAttrs]_vars

\* ------------------------------------------------------------------------
\* Claims about the attrs of a Device
\* ------------------------------------------------------------------------
\* What d.attrs made Product, Model and Usb report when List produced d
Produced(key) == IF key \in DOMAIN cl.produced THEN cl.produced[key] ELSE "error"

\* C19: whatever the callers do, DeviceInfo, Product, Model and Usb report
\* for the Device what they reported when Client.List produced it.
C19_AttrsImmutable ==
    cl.pc = "device" =>
        /\ cl.heap[cl.dev.attrs] = cl.produced
        /\ \A k \in AttrKeys : Attribute(cl.dev, k) = Produced(k)


\* ========================================================================
\* The life of a device-scoped socket (device.go 212-276, 279-421;
\* transport.CreateSyncTransport, src/unnamed/part_001 241-253)
\* ========================================================================
\* strings.HasPrefix
HasPrefix(s, p) == Len(s) >= Len(p) /\ SubSeq(s, 1, Len(p)) = p

\* What transport.Send wrote (a framed command) and what the syncTransport
\* wrote (a SYNC frame), told apart by what the entry of wire is.
SyncWrites == {"LIST", "SEND", "RECV", "DATA*", "DONE"}
IsServiceCommand(s) ==
    HasPrefix(s, "shell:") \/ HasPrefix(s, "tcpip:") \/ s = "sync:"
FramedWrites == {i \in 1 .. Len(wire) : wire[i] \notin SyncWrites}

\* C21: on every device-scoped socket the first bytes sent are the framed
\* host:transport:<serial> command; one framed service command (shell:...,
\* tcpip:... or sync:) is sent after its OKAY and no framed command after
\* that one; after sync: only SYNC frames are written; nothing is written
\* before the dial, and the socket is closed only by the operation's return,
\* after which the operation writes nothing.
C21_SocketLifeCycle ==
    /\ wire # <<>> => (dialed /\ wire[1] = "host:transport:" \o Serial)
    /\ Len(wire) >= 2 => (attached /\ IsServiceCommand(wire[2]) /\ wire[2] = service)
    /\ FramedWrites \subseteq {1, 2}
    /\ \A i \in 3 .. Len(wire) : wire[2] = "sync:" /\ wire[i] \in SyncWrites
    /\ closes # <<>> => Returned

\* C21 witness: a Push that went through the whole life of its socket: the
\* attach, the sync: upgrade, three SYNC writes, the close.
C21_Witness ==
    /\ op = "Push" /\ Returned /\ ret = "ok" /\ closes # <<>>
    /\ wire = <<"host:transport:" \o Serial, "sync:", "SEND", "DATA*", "DONE">>

\* ========================================================================
\* The length prefix of transport.Send for every command length
\* (src/unnamed/part_001 172-175)
\* ========================================================================
\* Send has returned success: every byte of the message is on the socket.
SentAll == snd.pc = "done" /\ snd.ret = "ok"

\* C22: every frame Send writes begins with a length prefix of exactly four
\* lowercase hexadecimal characters, also for a command longer than 0xFFFF
\* bytes: the command starts at the fifth byte written.
C22_PrefixIsFourChars ==
    SentAll =>
        LET w == Written IN
        /\ Len(snd.prefix) = 4
        /\ \A i \in 1 .. 4 : HexDigitValue(w[i]) >= 0
        /\ SubSeq(w, 5, Len(w)) = CommandOfLen(snd.n)

\* ========================================================================
\* syncTransport.VerifyStatus (sync_transport.go 97-122), as Push calls it
\* ========================================================================
\* VerifyStatus has read a status header with tag OKAY.
StatusOkay == push.pc = "done" /\ push.reply.tag = "OKAY"

\* VerifyStatus has read a message after the 8 header bytes.
MessageRead ==
    \E i \in 1 .. Len(push.io) : push.io[i].dir = "r" /\ push.io[i].tag = "message"

\* C23: when the status header has tag OKAY, VerifyStatus returns success
\* after the 8 header bytes, whatever the auxiliary number; a message of
\* aux-many bytes is read only when the tag is FAIL.
C23_OkayIsHeaderOnly ==
    /\ StatusOkay => (push.ret = "ok" /\ ~MessageRead)
    /\ MessageRead => push.reply.tag = "FAIL"

\* ========================================================================
\* Device.List on a reply that holds a frame with another tag than DENT or
\* DONE (sync_transport.go 175-214, device.go 279-311)
\* ========================================================================
\* Frames that are neither DENT nor DONE: a FAIL frame with its message, a
\* header of twenty zero bytes, and a frame laid out as a DENT frame under
\* the tag STAT.
ZeroHeader == [i \in 1 .. 20 |-> 0]
FailFrame == SyncFAIL \o LittleEndian(4) \o <<110, 111, 112, 101>>
StatFrame ==
    <<83, 84, 65, 84>> \o LittleEndian(33188) \o LittleEndian(5)
        \o LittleEndian(1700000000) \o LittleEndian(1) \o <<97>>
OtherFrames == {ZeroHeader, FailFrame, StatFrame}

\* The replies: up to MaxDents DENT frames, then one of the other frames,
\* then a DONE header or nothing; and every truncation of such a reply.
InitOtherTag ==
    /\ \E es \in DirLists, other \in OtherFrames, tr \in {<<>>, DoneHeader} :
          LET full == DentFrames(es) \o other \o tr IN
          \E k \in 0 .. Len(full) :
             vr = [pc |-> "dir-loop", frames |-> es, other |-> other,
                   stream |-> SubSeq(full, 1, k),
                   pos |-> 0, devFileInfos |-> <<>>, ret |-> "none"]
    /\ IdleDevice /\ IdlePush /\ IdleSend /\ IdleList /\ IdleShell /\ IdleConn

SpecOtherTag == InitOtherTag /\ [][NextDeviceList]_vars

\* The frame with the other tag has arrived whole, after the DENT frames.
OtherFrameArrived ==
    Len(vr.stream) >= Len(DentFrames(vr.frames)) + Len(vr.other)

\* C24: while a LIST reply is read, a frame whose tag is neither DENT nor
\* DONE makes Device.List fail with a protocol error, and no directory entry
\* is ever decoded from such a frame.
C24_OtherTagIsProtocolError ==
    OtherFrameArrived =>
        /\ Len(vr.devFileInfos) <= Len(vr.frames)
        /\ vr.pc = "dir-done" => vr.ret = "protocol-error"

\* ========================================================================
\* _readN (src/unnamed/part_001 270-285), one socket read at a time.
\* io.ReadFull calls reader.Read until its buffer is full or a Read returns
\* an error; a Read of zero bytes without error is called again.
\* ========================================================================
MaxReadSize == 3    \* every size up to this one is asked of _readN
MaxZeroReads == 2   \* socket reads that return zero bytes and no error at most

\* The i-th byte the server sends.
SockByte(i) == 100 + i
SockBytes(a, b) == [i \in 1 .. (b - a) |-> SockByte(a + i)]

\* The error io.ReadFull returns when a Read failed with err after n bytes
\* of the buffer were filled: io.EOF becomes io.ErrUnexpectedEOF when n > 0.
ReadFullError(n, err) ==
    IF err = "EOF" /\ n > 0 THEN "unexpected-EOF" ELSE err

\* The server has sent `sent` bytes and has then closed its end, or has
\* fallen silent.
InitReadN ==
    /\ \E size \in 0 .. MaxReadSize, sent \in 0 .. MaxReadSize + 1,
          closed \in BOOLEAN :
          vr = [pc |-> "readn", size |-> size, sent |-> sent, closed |-> closed,
                pos |-> 0, n |-> 0, zeros |-> 0, zeroRead |-> FALSE,
                raw |-> <<>>, ret |-> "none"]
    /\ IdleDevice /\ IdlePush /\ IdleSend /\ IdleList /\ IdleShell /\ IdleConn

\* raw := make([]byte, 0, size), and the loop test len(raw) < size: a size
\* of zero returns the empty slice without a read.
ReadNEnter ==
    /\ vr.pc = "readn"
    /\ vr' = IF Len(vr.raw) < vr.size
             THEN [vr EXCEPT !.pc = "readfull"]
             ELSE [vr EXCEPT !.pc = "readn-done", !.ret = "ok"]
    /\ DeviceIdle /\ UNCHANGED <<push, snd, cl, sh, cn>>

\* io.ReadFull(reader, buf) with len(buf) = size - len(raw): one reader.Read
\* of the rest of buf, and, when ReadFull returns, the rest of _readN's turn:
\* err != nil returns the error, n == 0 returns ErrConnBroken, otherwise buf
\* is appended to raw and the loop test ends the loop.
ReadNRead ==
    /\ vr.pc = "readfull"
    /\ LET want == vr.size - Len(vr.raw)
           left == vr.sent - vr.pos
           Return(n, err) ==
               IF err # "nil"
               THEN [vr EXCEPT !.pc = "readn-done", !.n = n,
                               !.ret = ReadFullError(n, err)]
               ELSE IF n = 0
               THEN [vr EXCEPT !.pc = "readn-done", !.n = n,
                               !.ret = "connection-broken"]
               ELSE [vr EXCEPT !.pc = "readn-done", !.n = n, !.ret = "ok",
                               !.pos = vr.pos + (n - vr.n),
                               !.raw = vr.raw \o SockBytes(vr.pos - vr.n, vr.pos + (n - vr.n))]
       IN  \/ \* the Read delivers k bytes
              \E k \in 1 .. Min(left, want - vr.n) :
                 IF vr.n + k >= want
                 THEN vr' = Return(vr.n + k, "nil")
                 ELSE vr' = [vr EXCEPT !.n = vr.n + k, !.pos = vr.pos + k]
           \/ \* the server has closed: zero bytes and io.EOF
              /\ left = 0 /\ vr.closed
              /\ vr' = [Return(vr.n, "EOF") EXCEPT !.zeroRead = TRUE]
           \/ \* nothing arrives before the read deadline
              /\ left = 0 /\ ~vr.closed
              /\ vr' = Return(vr.n, "timeout")
           \/ \* zero bytes and no error: ReadFull calls Read again
              /\ vr.zeros < MaxZeroReads
              /\ vr' = [vr EXCEPT !.zeros = vr.zeros + 1, !.zeroRead = TRUE]
    /\ DeviceIdle /\ UNCHANGED <<push, snd, cl, sh, cn>>

NextReadN == ReadNEnter \/ ReadNRead

SpecReadN == InitReadN /\ [][NextReadN]_vars

ReadNReturned == vr.pc = "readn-done"

\* C25: ReadBytesN / _readN returns either exactly n bytes in the order
\* received or an error, never a shorter or longer result; and when a socket
\* read yielded zero bytes before n bytes were gathered, with or without
\* end-of-stream, it fails with the connection-broken error.
C25_ExactOrBroken ==
    ReadNReturned =>
        /\ \/ vr.ret = "ok" /\ vr.raw = SockBytes(0, vr.size)
           \/ vr.ret # "ok" /\ vr.raw = <<>>
        /\ vr.zeroRead => vr.ret = "connection-broken"

\* ========================================================================
\* The read deadline and the reads of a device-scoped operation
\* (transport.ReadBytesN, src/unnamed/part_001 229-232; sync_transport.go
\* 97-122, 141-234; device.go 230-242).  Each operator gives, in program
\* order, the SetReadDeadline calls and the reads of the code it is named
\* after, on the path on which every read succeeds.
\* ========================================================================
Arm == [call |-> "SetReadDeadline", what |-> "now + readTimeout"]
SockRead(what) == [call |-> "Read", what |-> what]

\* ReadBytesN / ReadStringN: the deadline is set, then _readN reads; a size
\* of zero sets the deadline and reads nothing.
ReadBytesNCalls(what, size) ==
    IF size > 0 THEN <<Arm, SockRead(what)>> ELSE <<Arm>>

\* syncTransport.ReadUint32, and binary.Read of entry.mode: binary.Read on
\* the socket, with no SetReadDeadline.
ReadUint32Calls(what) == <<SockRead(what)>>

\* transport.VerifyResponse with status OKAY
VerifyResponseCalls == ReadBytesNCalls("status", 4)

\* syncTransport.ReadDirectoryEntry: a DENT frame, or the DONE tag
ReadDirectoryEntryCalls(done) ==
    IF done THEN ReadBytesNCalls("tag", 4)
    ELSE ReadBytesNCalls("tag", 4) \o ReadUint32Calls("mode")
         \o ReadUint32Calls("size") \o ReadUint32Calls("time")
         \o ReadUint32Calls("name length") \o ReadBytesNCalls("name", 1)

\* syncTransport.readChunk: a DATA frame, or the DONE header
readChunkCalls(done) ==
    ReadBytesNCalls("tag", 4) \o ReadUint32Calls("length")
    \o (IF done THEN <<>> ELSE ReadBytesNCalls("data", 1))

\* syncTransport.VerifyStatus with auxiliary number aux
VerifyStatusCalls(aux) ==
    ReadBytesNCalls("tag", 4) \o ReadUint32Calls("aux") \o ReadBytesNCalls("message", aux)

RECURSIVE Repeat(_, _)
Repeat(calls, k) == IF k = 0 THEN <<>> ELSE calls \o Repeat(calls, k - 1)

\* io.ReadAll(r) on the socket: a Read per chunk of output and the Read
\* that returns io.EOF, with no SetReadDeadline.
ReadAllCalls(k) == Repeat(<<SockRead("output")>>, k + 1)

\* The reads of a whole operation after its two sends: the OKAY of
\* host:transport, the OKAY of the service, and the reply to the service.
ReadOps == {"RunShellCommand", "List", "Pull", "Push"}
ReplySizes(o) ==
    CASE o = "RunShellCommand" -> 0 .. MaxOutput
      [] o = "List" -> 0 .. MaxDents
      [] o = "Pull" -> 0 .. MaxFrames
      [] o = "Push" -> 0 .. MaxAux
OperationCalls(o, k) ==
    VerifyResponseCalls \o VerifyResponseCalls \o
    CASE o = "RunShellCommand" -> ReadAllCalls(k)
      [] o = "List" -> Repeat(ReadDirectoryEntryCalls(FALSE), k)
                       \o ReadDirectoryEntryCalls(TRUE)
      [] o = "Pull" -> Repeat(readChunkCalls(FALSE), k) \o readChunkCalls(TRUE)
      [] o = "Push" -> VerifyStatusCalls(k)

InitDeadline ==
    /\ \E o \in ReadOps : \E k \in ReplySizes(o) :
          vr = [pc |-> "reading", op |-> o, k |-> k, at |-> 1,
                armed |-> "never", stale |-> <<>>]
    /\ IdleDevice /\ IdlePush /\ IdleSend /\ IdleList /\ IdleShell /\ IdleConn

\* sock.SetReadDeadline(time.Now().Add(readTimeout))
DeadlineSet ==
    /\ vr.pc = "reading"
    /\ vr.at <= Len(OperationCalls(vr.op, vr.k))
    /\ OperationCalls(vr.op, vr.k)[vr.at].call = "SetReadDeadline"
    /\ vr' = [vr EXCEPT !.at = vr.at + 1, !.armed = "fresh"]
    /\ DeviceIdle /\ UNCHANGED <<push, snd, cl, sh, cn>>

\* A read on the socket: it runs under the deadline set last, which from
\* then on is the deadline of an earlier read.
DeadlineRead ==
    /\ vr.pc = "reading"
    /\ vr.at <= Len(OperationCalls(vr.op, vr.k))
    /\ LET c == OperationCalls(vr.op, vr.k)[vr.at] IN
       /\ c.call = "Read"
       /\ vr' = [vr EXCEPT !.at = vr.at + 1, !.armed = "used",
                           !.stale = IF vr.armed = "fresh" THEN @
                                     ELSE Append(@, c.what)]
    /\ DeviceIdle /\ UNCHANGED <<push, snd, cl, sh, cn>>

\* The operation returns after its last read.
DeadlineReturn ==
    /\ vr.pc = "reading"
    /\ vr.at > Len(OperationCalls(vr.op, vr.k))
    /\ vr' = [vr EXCEPT !.pc = "read-done"]
    /\ DeviceIdle /\ UNCHANGED <<push, snd, cl, sh, cn>>

NextDeadline == DeadlineSet \/ DeadlineRead \/ DeadlineReturn

SpecDeadline == InitDeadline /\ [][NextDeadline]_vars

\* C26: every read on a socket (status tags, payloads, SYNC header u32
\* fields, DENT fields, the read-until-EOF of shell output) is preceded by a
\* refresh of the read deadline made after the previous read on that socket:
\* no read runs under a deadline set for an earlier read.
C26_EveryReadRefreshed ==
    vr.pc \in {"reading", "read-done"} => vr.stale = <<>>

\* ========================================================================
\* transport.UnpackBytes on a malformed length prefix
\* (src/unnamed/part_001 207-219, 270-285), as VerifyResponse calls it
\* ========================================================================
\* UnpackBytes has returned or crashed after a length prefix arrived whose
\* four bytes are not four hexadecimal digits.
MalformedLength ==
    /\ vr.pc = "done" /\ Len(vr.stream) >= 8
    /\ SubSeq(vr.stream, 1, 4) # OKAY
    /\ \E i \in 5 .. 8 : ParseDigit(vr.stream[i]) < 0

\* C27: when the four bytes of an inbound length prefix are not four
\* hexadecimal digits, reading the payload fails with the parse error
\* returned to the caller, no payload byte is read, and the call does not
\* crash on a buffer of negative size.
C27_MalformedLengthRefused ==
    MalformedLength =>
        /\ vr.ret # "panic"
        /\ vr.ret \in {"syntax-error", "protocol-error"}
        /\ vr.pos = 8

\* ========================================================================
\* The loop of _send (src/unnamed/part_001 255-268) under partial writes
\* ========================================================================
\* The scheduler runs the sending goroutine: a step of Send that is enabled
\* is taken.
FairSpecSend == SpecSend /\ WF_vars(NextSend)

\* The writes accepted so far: each slice starts where the one before ended,
\* the first at offset 0, each takes at least one byte, and none ends after
\* the end of the message.
RECURSIVE Contiguous(_, _)
Contiguous(slices, from) ==
    \/ slices = <<>>
    \/ /\ slices[1][1] = from /\ slices[1][2] >= 1
       /\ Contiguous(Tail(slices), from + slices[1][2])
SlicesEnd(slices) ==
    IF slices = <<>> THEN 0 ELSE slices[Len(slices)][1] + slices[Len(slices)][2]

SendLoopSafe ==
    /\ Contiguous(snd.slices, 0)
    /\ SlicesEnd(snd.slices) <= MsgLen(snd.prefix, snd.n)
    /\ snd.pc = "done" =>
          \/ /\ snd.ret = "ok"
             /\ SlicesEnd(snd.slices) = MsgLen(snd.prefix, snd.n)
             /\ Written = MsgOf(snd.prefix, snd.n)
          \/ snd.ret \in {"io-error", "connection-broken"}

\* A Write that returned zero bytes and no error: a short write that left
\* the accepted bytes as they were.
ZeroWrite == snd.pc = "loop" /\ snd'.short # snd.short /\ snd'.slices = snd.slices

\* C28: for every message and every pattern of partial writes, the send
\* loop terminates; when it ends, either the bytes the socket accepted are
\* exactly the message, each byte once and in order, or it returns an error;
\* a write that accepts zero bytes without error ends it with the
\* connection-broken error; it never writes past the end of the message.
C28_SendLoop ==
    /\ []SendLoopSafe
    /\ [][ZeroWrite => (snd'.pc = "done" /\ snd'.ret = "connection-broken")]_vars
    /\ <>(snd.pc = "done")

\* C28 witness: a message of MaxCmdLen bytes went out whole through
\* MaxShortWrites short writes and a last full one.
C28_Witness ==
    /\ snd.pc = "done" /\ snd.ret = "ok" /\ snd.short = MaxShortWrites
    /\ Len(snd.slices) = MaxShortWrites + 1 /\ snd.n = MaxCmdLen

\* ========================================================================
\* The stream executeCommandStreaming hands out.  device.go 244-276 closes
\* the transport in its deferred func only when resp is nil (VerifyService
\* above); the draft of the same method kept in src/error.go 228-254 defers
\* tp.Close() without a condition.  The draft's streaming operations are
\* RunShellCommandStreaming and EnableAdbOverTCP.
\* ========================================================================
DraftOps == {"RunShellCommand", "EnableAdbOverTCP"}

\* Draft: createDeviceTransport's tp.VerifyResponse(), then defer tp.Close().
DraftVerifyHostTransport ==
    /\ pc = "verifyTransport"
    /\ \/ /\ pc' = "sendService" /\ ret' = ret /\ attached' = TRUE
          /\ defers' = <<"tp">>
       \/ /\ pc' = "returned" /\ defers' = defers /\ attached' = attached
          /\ \E e \in {"io-error", "command-failed"} : ret' = e
    /\ UNCHANGED <<op, service, dialed, closes, resp, wire, entries, logVars>>
    /\ Others

\* Draft: tp.VerifyResponse() of the service command and `return tp.sock,
\* nil`: the deferred tp.Close() runs as the method returns, then the
\* consumer defers r.Close().
DraftVerifyService ==
    /\ pc = "verifyService"
    /\ \/ /\ resp' = "sock"
          /\ closes' = closes \o RunDefers(defers, "sock")
          /\ defers' = <<"r">>
          /\ pc' = IF op = "EnableAdbOverTCP" THEN "enableReturn" ELSE "readAll"
          /\ ret' = ret
       \/ /\ \E e \in {"io-error", "command-failed"} : ReturnWith(e)
          /\ resp' = resp
    /\ UNCHANGED <<op, service, dialed, attached, wire, entries, logVars>>
    /\ Others

\* Draft: executeCommand's io.ReadAll(r) on the socket that is closed
\* already fails; then the deferred r.Close().
DraftReadAll ==
    /\ pc = "readAll"
    /\ ReturnWith(IF closes # <<>> THEN "io-error" ELSE "ok")
    /\ UNCHANGED <<op, service, dialed, attached, resp, wire, entries, logVars>>
    /\ Others

NextDraft ==
    \/ \E o \in DraftOps : Call(o)
    \/ NewTransport
    \/ SendHostTransport
    \/ DraftVerifyHostTransport
    \/ SendService
    \/ DraftVerifyService
    \/ DraftReadAll
    \/ EnableReturn

SpecDraft == Init /\ [][NextDraft]_vars

\* executeCommandStreaming has returned a stream and its consumer holds it.
StreamHeld == resp = "sock" /\ pc \in {"readAll", "enableReturn"}

\* C29: when executeCommandStreaming returns a stream to its caller, the
\* socket behind it is open at the return and the library does not close it
\* while the consumer holds it; it is closed exactly once, by the consumer
\* (executeCommand after its read, EnableAdbOverTCP on return).
C29_StreamOwnedByConsumer ==
    /\ StreamHeld => closes = <<>>
    /\ (resp = "sock" /\ Returned) => closes = <<"r">>

\* ========================================================================
\* Client.ForwardList (src/file.go 171-189): the loop over the lines of the
\* host:list-forward payload
\* ========================================================================
\* Lines of a payload: rules of three fields (one with tabs and doubled
\* spaces), a line of four fields, lines of two and of one field, blank
\* lines.
ForwardLines == {
    <<"s", "1", " ", "l", "1", " ", "r", "1">>,
    <<" ", "s", "2", "\t", "l", "2", " ", " ", "r", "2", " ">>,
    <<"s", "3", " ", "l", "3", " ", "r", "3", " ", "x">>,
    <<"s", "4", " ", "l", "4">>,
    <<"s", "5">>,
    <<>>,
    <<" ">> }

ForwardPayloads ==
    {JoinLines(ls) : ls \in UNION {[1 .. n -> ForwardLines] : n \in 0 .. MaxLines}}

InitForwardList ==
    /\ \E pl \in ForwardPayloads :
          cl = [pc |-> "forward-exec", payload |-> pl, lines |-> <<>>, idx |-> 0,
                devices |-> <<>>, ret |-> "none"]
    /\ IdleDevice /\ IdlePush /\ IdleSend /\ IdleVerify /\ IdleShell /\ IdleConn

\* resp, err := c.executeCommand("host:list-forward"); strings.Split(resp, "\n")
ForwardListExec ==
    /\ cl.pc = "forward-exec"
    /\ \/ cl' = [cl EXCEPT !.pc = "forward-done", !.ret = "io-error"]
       \/ cl' = [cl EXCEPT !.pc = "forward-loop",
                           !.lines = Split(cl.payload, "\n"), !.idx = 1]
    /\ DeviceIdle /\ UNCHANGED <<push, snd, vr, sh, cn>>

\* One turn of the loop: line := strings.TrimSpace(l); a blank line is
\* skipped; fields := strings.Fields(line); fields[0], fields[1], fields[2]
\* are indexed with no test of len(fields): an index out of range panics.
ForwardListLine ==
    /\ cl.pc = "forward-loop"
    /\ cl.idx <= Len(cl.lines)
    /\ LET line == TrimSpace(cl.lines[cl.idx])
           fields == Fields(line)
       IN  IF line = <<>>
           THEN cl' = [cl EXCEPT !.idx = cl.idx + 1]
           ELSE IF Len(fields) < 3
           THEN cl' = [cl EXCEPT !.pc = "forward-done", !.ret = "panic"]
           ELSE cl' = [cl EXCEPT !.idx = cl.idx + 1,
                          !.devices = Append(cl.devices,
                              [Serial |-> fields[1], Local |-> fields[2],
                               Remote |-> fields[3]])]
    /\ DeviceIdle /\ UNCHANGED <<push, snd, vr, sh, cn>>

ForwardListReturn ==
    /\ cl.pc = "forward-loop"
    /\ cl.idx > Len(cl.lines)
    /\ cl' = [cl EXCEPT !.pc = "forward-done", !.ret = "ok"]
    /\ DeviceIdle /\ UNCHANGED <<push, snd, vr, sh, cn>>

NextForwardList == ForwardListExec \/ ForwardListLine \/ ForwardListReturn

SpecForwardList == InitForwardList /\ [][NextForwardList]_vars

\* The rules of the payload: of every line with three fields or more, in
\* payload order, the first three fields.
HasThreeFields(l) == Len(Fields(l)) >= 3
RECURSIVE RulesOf(_)
RulesOf(ls) ==
    IF ls = <<>> THEN <<>>
    ELSE LET f == Fields(Head(ls)) IN
         <<[Serial |-> f[1], Local |-> f[2], Remote |-> f[3]]>> \o RulesOf(Tail(ls))
ForwardRules == RulesOf(SelectSeq(Split(cl.payload, "\n"), HasThreeFields))

\* C30: for every host:list-forward payload, ForwardList returns either a
\* list of rules or an error value: a non-blank line with fewer than three
\* fields never makes the call crash, and every line with three fields
\* yields the rule (serial, local, remote), in payload order.
C30_ForwardListNeverCrashes ==
    cl.pc = "forward-done" =>
        /\ cl.ret # "panic"
        /\ cl.ret = "ok" => cl.devices = ForwardRules

\* ========================================================================
\* Device.Logcat (device.go 399-421): what makes the call return
\* ========================================================================
\* The background copy has ended, by end-of-stream, a read error or a
\* failed write to dst, before any stop signal.
CopyEndedUnstopped == LogcatVerified /\ gpc = "done" /\ ~exitFired

\* C31: after Logcat's service command has been verified, Logcat returns
\* only after the stop signal has fired: neither end-of-stream on the
\* socket nor a failure of the destination writer in the background copy
\* makes the call return; and its result is then success.
C31_ReturnsOnlyOnStop ==
    /\ (LogcatVerified /\ Returned) => (exitFired /\ ret = "ok")
    /\ CopyEndedUnstopped => (pc = "waitExit" /\ closes = <<>>)

\* C31 witness: the server has closed its end and the copy has ended, no
\* stop signal has fired, and Logcat is still waiting on exitChan.
C31_Witness ==
    CopyEndedUnstopped /\ srvClosed /\ pc = "waitExit" /\ ~ctxDone

====
